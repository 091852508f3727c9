---------------------------- MODULE CommandQueue ----------------------------
(***************************************************************************)
(* Local commands to the agent: "volta export start|stop" (main.cc         *)
(* cli_mode) puts a message on a POSIX queue, and MessageQueue's           *)
(* notification thread takes it off and drives the Exporter, to which the  *)
(* scheduler thread writes the rows of each collection and which it closes *)
(* when it stops.  The Exporter has no lock: where both threads use its    *)
(* file at a time the outcome is undefined, and the process may die.       *)
(*                                                                         *)
(* mq_notify (external, mq_notify(3)) is one-shot: a registration is used  *)
(* up when a message arrives on an EMPTY queue, and a thread runs          *)
(* on_notify.  A registration made while messages wait does not fire.      *)
(***************************************************************************)
EXTENDS Integers, Sequences, FiniteSets

CONSTANTS
    Threads,       \* the notification threads that can run at a time
    MaxMessages,   \* mq_maxmsg (10 in the code)
    MaxSends       \* bound: the commands ever sent

ASSUME QueueAssumption == MaxMessages \in Nat \ {0} /\ MaxSends \in Nat

\* dump_start with a directory that exists, with one that does not, with none
\* (the default directory), and dump_end.
Commands == {"start", "start_nodir", "start_default", "end"}

VARIABLES
    queue,       \* the messages in the POSIX queue
    sends,       \* how many commands were sent
    armed,       \* a notification is registered
    listening,   \* listening_
    thread,      \* each notification thread: its place and its message
    sched,       \* Scheduler: opened, collect, dump, ending, stop, exited, crashed
    exporting,   \* is_exporting
    file,        \* dump_file_: the number of the open file, Closed, or Failed
    files,       \* how many files were opened
    rowsIn,      \* history: where the rows of the last Dump went
    stopped      \* history: EndDump has run, or was half done, since that Dump began

queueVars  == <<queue, sends>>
exportVars == <<exporting, file, files>>
dumpVars   == <<rowsIn, stopped>>
vars == <<queueVars, armed, listening, thread, sched, exportVars, dumpVars>>

Closed == 0
Failed == -1     \* the last open() of dump_file_ failed
NoThread == [pc |-> "none", msg |-> "end"]
Alive == sched \notin {"exited", "crashed"}

-----------------------------------------------------------------------------
(* The command line: MessageQueue::send.  The descriptor was opened with   *)
(* O_NONBLOCK, so mq_send fails at once when the queue is full; cli_mode   *)
(* ignores the result.                                                     *)

\* Faulty variant: the queue has no limit.
SendUnlimited(m) ==
    /\ Alive
    /\ sends < MaxSends
    /\ sends' = sends + 1
    /\ queue' = Append(queue, m)
    /\ UNCHANGED <<armed, thread, listening, sched, exportVars, dumpVars>>

\* mq_send: the first message in an empty queue uses up the registration.
Send(m) ==
    /\ Alive
    /\ sends < MaxSends
    /\ sends' = sends + 1
    /\ \/ /\ Len(queue) = MaxMessages
          /\ UNCHANGED <<queue, armed, thread>>
       \/ /\ Len(queue) < MaxMessages
          /\ queue' = Append(queue, m)
          /\ \/ /\ armed /\ queue = <<>>
                /\ armed' = FALSE
                /\ \E t \in Threads :
                     /\ thread[t].pc = "none"
                     /\ thread' = [thread EXCEPT ![t].pc = "drain"]
             \/ /\ ~armed \/ queue # <<>>
                /\ UNCHANGED <<armed, thread>>
    /\ UNCHANGED <<listening, sched, exportVars, dumpVars>>

-----------------------------------------------------------------------------
(* A notification thread: on_notify, drain_and_rearm                       *)

\* Faulty variant: one message is taken per notification.
ReceiveOne(t) ==
    /\ thread[t].pc = "drain"
    /\ queue # <<>>
    /\ queue' = Tail(queue)
    /\ thread' = [thread EXCEPT ![t] = [pc |-> "rearm", msg |-> Head(queue)]]
    /\ UNCHANGED <<sends, armed, listening, sched, exportVars, dumpVars>>

\* mq_receive returns a message.
Receive(t) ==
    /\ thread[t].pc = "drain"
    /\ queue # <<>>
    /\ queue' = Tail(queue)
    /\ thread' = [thread EXCEPT ![t] = [pc |-> "handle", msg |-> Head(queue)]]
    /\ UNCHANGED <<sends, armed, listening, sched, exportVars, dumpVars>>

\* Faulty variant: the notification is registered before the last messages are
\* handled.
ReceiveEmptyEarly(t) ==
    /\ thread[t].pc = "drain"
    /\ armed' = listening
    /\ thread' = [thread EXCEPT ![t].pc = IF queue = <<>> THEN "none" ELSE "drain"]
    /\ UNCHANGED <<queueVars, listening, sched, exportVars, dumpVars>>

\* mq_receive returns EAGAIN.
ReceiveEmpty(t) ==
    /\ thread[t].pc = "drain"
    /\ queue = <<>>
    /\ thread' = [thread EXCEPT ![t].pc = "rearm"]
    /\ UNCHANGED <<queueVars, armed, listening, sched, exportVars, dumpVars>>

\* The last test of listening_.
Rearm(t) ==
    /\ thread[t].pc = "rearm"
    /\ thread' = [thread EXCEPT ![t] = IF listening THEN [@ EXCEPT !.pc = "arm"] ELSE NoThread]
    /\ UNCHANGED <<queueVars, armed, listening, sched, exportVars, dumpVars>>

\* arm_notify, and the thread returns.
ArmNotify(t) ==
    /\ thread[t].pc = "arm"
    /\ armed' = TRUE
    /\ thread' = [thread EXCEPT ![t] = NoThread]
    /\ UNCHANGED <<queueVars, listening, sched, exportVars, dumpVars>>

\* Faulty variant: a start during an export closes the file and opens another.
HandleStartReopens(t) ==
    /\ thread[t].pc = "handle"
    /\ thread[t].msg # "end"
    /\ file' = files + 1
    /\ files' = files + 1
    /\ thread' = [thread EXCEPT ![t].pc = "flag"]
    /\ UNCHANGED <<queueVars, armed, listening, sched, exporting, dumpVars>>

\* The handler Scheduler::Run installs, up to the test in StartDump and the
\* opening of the file.  Without a directory in the message it prints *path of
\* an empty optional, which is undefined: the process dies or goes on, with the
\* configured directory, which may not exist either.  open() may fail, also on a
\* stream that is open, and nobody looks at its result.
HandleStart(t) ==
    /\ thread[t].pc = "handle"
    /\ thread[t].msg # "end"
    /\ \/ /\ thread[t].msg = "start_default"
          /\ sched' = "crashed"
          /\ UNCHANGED <<thread, file, files, dumpVars>>
       \/ /\ exporting \/ thread[t].msg # "start"
          /\ thread' = [thread EXCEPT ![t].pc = "drain"]
          /\ UNCHANGED <<sched, file, files, dumpVars>>
       \/ /\ ~exporting /\ thread[t].msg # "start_nodir"
          /\ \/ file \in {Closed, Failed} /\ file' = files + 1 /\ files' = files + 1
             \/ file \in {Closed, Failed} /\ file' = Failed /\ UNCHANGED files
             \/ file \notin {Closed, Failed} /\ UNCHANGED <<file, files>>
          /\ thread' = [thread EXCEPT ![t].pc = "flag"]
          /\ UNCHANGED sched
    /\ UNCHANGED <<queueVars, armed, listening, exporting, dumpVars>>

\* StartDump sets is_exporting after the header is written.
HandleStartFlag(t) ==
    /\ thread[t].pc = "flag"
    /\ exporting' = TRUE
    /\ thread' = [thread EXCEPT ![t].pc = "drain"]
    /\ UNCHANGED <<queueVars, armed, listening, sched, file, files, dumpVars>>

\* What EndDump makes of dump_file_: only an open file is closed.
CloseFile == IF file = Failed THEN Failed ELSE Closed

\* EndDump closes the file ...
HandleEnd(t) ==
    /\ thread[t].pc = "handle"
    /\ thread[t].msg = "end"
    /\ file' = CloseFile
    /\ stopped' = TRUE
    /\ thread' = [thread EXCEPT ![t].pc = "unflag"]
    /\ UNCHANGED <<queueVars, armed, listening, sched, exporting, files, rowsIn>>

\* Faulty variant: EndDump does not clear is_exporting.
HandleEndKeepsFlag(t) ==
    /\ thread[t].pc = "unflag"
    /\ thread' = [thread EXCEPT ![t].pc = "drain"]
    /\ UNCHANGED <<queueVars, armed, listening, sched, exportVars, dumpVars>>

\* ... and clears is_exporting.
HandleEndFlag(t) ==
    /\ thread[t].pc = "unflag"
    /\ exporting' = FALSE
    /\ thread' = [thread EXCEPT ![t].pc = "drain"]
    /\ UNCHANGED <<queueVars, armed, listening, sched, file, files, dumpVars>>

Notify(t) ==
    \/ Receive(t) \/ ReceiveEmpty(t) \/ Rearm(t) \/ ArmNotify(t)
    \/ HandleStart(t) \/ HandleStartFlag(t) \/ HandleEnd(t) \/ HandleEndFlag(t)

-----------------------------------------------------------------------------
(* Scheduler::Run                                                          *)

\* listen: the queue has existed since the constructor.
Listen ==
    /\ sched = "opened"
    /\ listening' = TRUE
    /\ armed' = TRUE
    /\ sched' = "collect"
    /\ UNCHANGED <<queueVars, thread, exportVars, dumpVars>>

\* Exporter::Dump of one collector's metrics: is_exporting is looked at once ...
Dump ==
    /\ sched = "collect"
    /\ exporting
    /\ sched' = "dump"
    /\ rowsIn' = {}
    /\ stopped' = (\E t \in Threads : thread[t].pc = "unflag")
    /\ UNCHANGED <<queueVars, armed, listening, thread, exportVars>>

\* ... and each row goes to whatever dump_file_ is by then.
DumpRow ==
    /\ sched = "dump"
    /\ rowsIn' = rowsIn \cup {file}
    /\ UNCHANGED <<queueVars, armed, listening, thread, sched, exportVars, stopped>>

DumpEnd ==
    /\ sched = "dump"
    /\ sched' = "collect"
    /\ UNCHANGED <<queueVars, armed, listening, thread, exportVars, dumpVars>>

\* The handler opens or closes dump_file_ while Dump writes to it, or while Run's
\* own EndDump closes it: a data race.
Race ==
    /\ sched \in {"collect", "dump"}
    /\ \E t \in Threads :
         /\ thread[t].pc = "handle"
         /\ thread[t].msg = "end" \/ (~exporting /\ thread[t].msg # "start_nodir")
    /\ sched' = "crashed"
    /\ UNCHANGED <<queueVars, armed, listening, thread, exportVars, dumpVars>>

\* g_running is cleared: EndDump ...
RunEnd ==
    /\ sched = "collect"
    /\ sched' = "ending"
    /\ file' = CloseFile
    /\ stopped' = TRUE
    /\ UNCHANGED <<queueVars, armed, listening, thread, exporting, files, rowsIn>>

RunEndFlag ==
    /\ sched = "ending"
    /\ sched' = "stop"
    /\ exporting' = FALSE
    /\ UNCHANGED <<queueVars, armed, listening, thread, file, files, dumpVars>>

\* ... and stop_listening.
StopListening ==
    /\ sched = "stop"
    /\ sched' = "exited"
    /\ listening' = FALSE
    /\ armed' = FALSE
    /\ UNCHANGED <<queueVars, thread, exportVars, dumpVars>>

Run == Listen \/ Dump \/ DumpRow \/ DumpEnd \/ Race \/ RunEnd \/ RunEndFlag \/ StopListening

-----------------------------------------------------------------------------
Init ==
    /\ queue = <<>>
    /\ sends = 0
    /\ armed = FALSE
    /\ listening = FALSE
    /\ thread = [t \in Threads |-> NoThread]
    /\ sched = "opened"
    /\ exporting = FALSE
    /\ file = Closed
    /\ files = 0
    /\ rowsIn = {}
    /\ stopped = FALSE

Next ==
    \/ \E m \in Commands : Send(m)
    \/ sched # "crashed" /\ \E t \in Threads : Notify(t)
    \/ Run

Spec == Init /\ [][Next]_vars

\* A notification thread that runs is scheduled.
FairSpec == Spec /\ \A t \in Threads : WF_vars(sched # "crashed" /\ Notify(t))

-----------------------------------------------------------------------------
(* Properties                                                              *)

\* Every variable has its type; the queue never exceeds mq_maxmsg.
TypeOK ==
    /\ queue \in Seq(Commands)
    /\ Len(queue) <= MaxMessages
    /\ sends \in 0 .. MaxSends
    /\ armed \in BOOLEAN
    /\ listening \in BOOLEAN
    /\ thread \in [Threads -> [pc : {"none", "drain", "handle", "flag", "unflag", "rearm", "arm"},
                               msg : Commands]]
    /\ sched \in {"opened", "collect", "dump", "ending", "stop", "exited", "crashed"}
    /\ exporting \in BOOLEAN
    /\ files \in Nat
    /\ file \in {Failed, Closed} \cup 1 .. files
    /\ rowsIn \in SUBSET ({Failed, Closed} \cup 1 .. files)
    /\ stopped \in BOOLEAN

\* The handler never runs on two threads: the notification that starts a thread
\* uses up the registration, and the thread renews it when it has finished.
HandlerAlone ==
    /\ armed => \A t \in Threads : thread[t].pc = "none"
    /\ \A t, u \in Threads : thread[t].pc # "none" /\ thread[u].pc # "none" => t = u

\* While the agent collects and no command is half done, a dump file is open only
\* if it is exporting, and it is exporting only into a file it tried to open: no
\* sequence of commands leaves a file behind or makes a start do nothing for ever.
ExportConsistent ==
    sched \in {"opened", "collect", "dump"}
      /\ (\A t \in Threads : thread[t].pc \notin {"flag", "unflag"})
    => /\ file \in 1 .. files => exporting
       /\ exporting => file # Closed

\* Unless somebody stops the export, the rows of one Dump all go to one file, the
\* one whose opening was tried: StartDump sets is_exporting last, so Dump, which
\* looks at the flag once and takes no lock, finds the file opened, and a second
\* start does not reopen it.  A stop is excepted: EndDump closes the file before it
\* clears the flag, and the rows of a Dump in that window go to a closed stream.
RowsStayTogether ==
    rowsIn # {} /\ ~stopped => rowsIn \in {{f} : f \in {Failed} \cup 1 .. files}

\* A thread that was notified empties the queue before it returns.
DrainEmpties ==
    \A t \in Threads : thread[t].pc = "drain" ~> queue = <<>> \/ sched \in {"exited", "crashed"}

\* drain_and_rearm: "we must consume everything now or we will miss messages
\* added while we were in this callback".  When the callback re-arms, nothing is
\* left in the queue that no notification will announce.
RearmFindsEmpty ==
    [][armed' /\ ~armed /\ (\E t \in Threads : thread[t].pc = "arm") => queue = <<>>]_vars

=============================================================================
