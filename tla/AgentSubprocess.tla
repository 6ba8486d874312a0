--------------------------- MODULE AgentSubprocess ---------------------------
(***************************************************************************)
(* The handler of a file-mode agent endpoint: a Python subprocess bridged  *)
(* to its AgentSession by JSON lines on stdin and stdout                   *)
(* (sdk/golang/syfthubapi/filemode/agent_executor.go).                     *)
(*                                                                         *)
(* Four parties run at once: the handler itself, which waits for the       *)
(* process; the reader goroutine (stdout to Send); the writer goroutine    *)
(* (Receive to stdin); and the process, whose runner.py is user code.      *)
(* AgentSession contributes the session they share, its consumer and its   *)
(* clean-up.  What the reader sends, and when the handler returns, is      *)
(* written down from the bridge alone, without the guards AgentSession     *)
(* puts on a handler: SendsWithinHandler says the bridge respects them.    *)
(***************************************************************************)
EXTENDS AgentSession

CONSTANTS Bridge,    \* the reader goroutine, as a sender of the session
          Written,   \* bound: the lines the process may write, all of Lines or some
          PipeCap,   \* lines the stdout pipe holds
          StdinCap   \* messages the stdin pipe holds

\* No other goroutine of the handler calls Send.
ASSUME OneSender == Sender = {Bridge}
ASSUME PipesAreNat == PipeCap \in Nat \ {0} /\ StdinCap \in Nat \ {0}

VARIABLES bridge,    \* progress of the handler
          proc,      \* the process: not there, running, or how it ended
          pyWrite,   \* the line the process is writing, or "none"
          lines,     \* number of lines it began to write
          stdout,    \* lines in the stdout pipe
          stdin,     \* number of messages in the stdin pipe
          pipesOpen, \* the bridge's ends of stdin and stdout are open
          children,  \* a process started by runner.py holds stderr and stdout
          reader, readBuf,   \* the reader goroutine and its scanner's buffer
          tooLong,   \* the scanner gave up on a line over its limit
          writer,    \* the writer goroutine
          waitErr    \* cmd.Wait returned an error

processVars == <<proc, pyWrite, lines, children>>
bridgeVars  == <<bridge, pipesOpen, waitErr>>
readerVars  == <<reader, readBuf, tooLong>>
subVars == <<bridge, proc, pyWrite, lines, stdout, stdin, pipesOpen, children,
             reader, readBuf, tooLong, writer, waitErr>>
allVars == <<vars, subVars>>

-----------------------------------------------------------------------------
\* A line is an event of whatever type runner.py writes, no JSON, or over 1 MB.
Lines == Kinds \cup {"junk", "long"}

ASSUME WrittenAreLines == Written \subseteq Lines

SubTypeOK ==
    /\ TypeOK
    /\ bridge \in {"starting", "waiting", "joining", "joined", "cancelled", "over"}
    /\ proc \in {"none", "running", "ok", "error", "killed"}
    /\ pyWrite \in Lines \cup {"none"}
    /\ lines \in Nat
    /\ stdout \in Seq(Lines)
    /\ stdin \in Nat
    /\ pipesOpen \in BOOLEAN
    /\ children \in BOOLEAN
    /\ reader \in {"none", "scanning", "sending", "stopped"}
    /\ readBuf \in Seq(Lines)
    /\ tooLong \in BOOLEAN
    /\ writer \in {"none", "receiving", "writing", "stopped"}
    /\ waitErr \in BOOLEAN

SubInit ==
    /\ Init
    /\ bridge = "starting"
    /\ proc = "none"
    /\ pyWrite = "none"
    /\ lines = 0
    /\ stdout = <<>>
    /\ stdin = 0
    /\ pipesOpen = TRUE
    /\ children = FALSE
    /\ reader = "none"
    /\ readBuf = <<>>
    /\ tooLong = FALSE
    /\ writer = "none"
    /\ waitErr = FALSE

\* The far end of the process's pipes is gone.
ProcessGone == proc \notin {"none", "running"} /\ ~children

-----------------------------------------------------------------------------
(* The handler.                                                             *)

\* The process is started, session_start written, both goroutines spawned.
StartProcess ==
    /\ bridge = "starting"
    /\ ~ctxDone
    /\ bridge' = "waiting"
    /\ proc' = "running"
    /\ reader' = "scanning"
    /\ writer' = "receiving"
    /\ UNCHANGED <<vars, pyWrite, lines, stdout, stdin, pipesOpen, children,
                   readBuf, tooLong, waitErr>>

\* A pipe or the process cannot be created (a cancelled context prevents it
\* too), or session_start cannot be written and the process is killed.
StartFails ==
    /\ bridge = "starting"
    /\ bridge' = "over"
    /\ proc' \in {"none", "killed"}
    /\ phase' = "returned"
    /\ result' = "error"
    /\ UNCHANGED <<mode, ctxDone, sequence, sendCh, inbox, routed, sendCall,
                   recvCall, reported, relayVars, pyWrite, lines, stdout, stdin,
                   pipesOpen, children, readerVars, writer, waitErr>>

\* cmd.Wait: the process is gone, stderr is at its end (whoever else held it
\* too), and only then both pipes are closed, with whatever stdout still holds.
\* A kill that reaches a process already gone is an error of Wait all the same.
WaitReturns ==
    /\ bridge = "waiting"
    /\ ProcessGone
    /\ bridge' = "joining"
    /\ pipesOpen' = FALSE
    /\ waitErr' \in IF proc # "ok" THEN {TRUE}
                    ELSE IF ctxDone THEN BOOLEAN ELSE {FALSE}
    /\ UNCHANGED <<vars, processVars, stdout, stdin, readerVars, writer>>

\* Faulty: nobody waits for the reader.
JoinNobody ==
    /\ bridge = "joining"
    /\ bridge' = "joined"
    /\ UNCHANGED <<vars, processVars, stdout, stdin, pipesOpen, waitErr,
                   readerVars, writer>>

\* wg.Wait: only the reader is in the wait group.
JoinReader ==
    /\ bridge = "joining"
    /\ reader = "stopped"
    /\ bridge' = "joined"
    /\ UNCHANGED <<vars, processVars, stdout, stdin, pipesOpen, waitErr,
                   readerVars, writer>>

\* session.Cancel, which frees the writer.
CancelOwnSession ==
    /\ bridge = "joined"
    /\ bridge' = "cancelled"
    /\ ctxDone' = TRUE
    /\ UNCHANGED <<mode, handlerVars, sendCh, inbox, routed, relayVars,
                   processVars, stdout, stdin, pipesOpen, waitErr, readerVars,
                   writer>>

Return ==
    /\ bridge = "cancelled"
    /\ bridge' = "over"
    /\ phase' = "returned"
    /\ result' = IF waitErr THEN "error" ELSE "ok"
    /\ UNCHANGED <<mode, ctxDone, sequence, sendCh, inbox, routed, sendCall,
                   recvCall, reported, relayVars, processVars, stdout, stdin,
                   pipesOpen, waitErr, readerVars, writer>>

-----------------------------------------------------------------------------
(* The process.                                                             *)

\* runner.py begins to write a line: _emit, or a print of its own.
ProcessBeginsLine(line) ==
    /\ proc = "running"
    /\ pyWrite = "none"
    /\ lines < MaxEvents
    /\ pyWrite' = line
    /\ lines' = lines + 1
    /\ UNCHANGED <<vars, bridgeVars, proc, stdout, stdin, children, readerVars,
                   writer>>

\* The line fits into the pipe; until then the process is blocked.
ProcessWritesLine ==
    /\ pyWrite # "none"
    /\ Len(stdout) < PipeCap
    /\ stdout' = Append(stdout, pyWrite)
    /\ pyWrite' = "none"
    /\ UNCHANGED <<vars, bridgeVars, proc, lines, stdin, children, readerVars,
                   writer>>

\* receive() takes a message from stdin.
ProcessReceives ==
    /\ proc = "running"
    /\ pyWrite = "none"
    /\ stdin > 0
    /\ stdin' = stdin - 1
    /\ UNCHANGED <<vars, bridgeVars, processVars, stdout, readerVars, writer>>

\* runner.py starts a process that inherits the pipes, or that one ends.
ChildStartsOrEnds ==
    /\ children \/ proc = "running"
    /\ children' = ~children
    /\ UNCHANGED <<vars, bridgeVars, proc, pyWrite, lines, stdout, stdin,
                   readerVars, writer>>

\* handler(session) returned or was cancelled by hand (exit 0), or failed.
ProcessExits ==
    /\ proc = "running"
    /\ pyWrite = "none"
    /\ proc' \in {"ok", "error"}
    /\ UNCHANGED <<vars, bridgeVars, pyWrite, lines, stdout, stdin, children,
                   readerVars, writer>>

\* Faulty: the process is not bound to the context (exec.Command).
KillNever == FALSE

\* exec.CommandContext kills the process when the session's context ends.
Kill ==
    /\ ctxDone
    /\ proc = "running"
    /\ proc' = "killed"
    /\ pyWrite' = "none"
    /\ UNCHANGED <<vars, bridgeVars, lines, stdout, stdin, children, readerVars,
                   writer>>

-----------------------------------------------------------------------------
(* The reader goroutine: the loop over scanner.Scan().                      *)

\* A read of the pipe fills the scanner's buffer.
ScanFills ==
    /\ reader = "scanning"
    /\ readBuf = <<>>
    /\ pipesOpen
    /\ \E n \in 1..Len(stdout) :
         /\ readBuf' = SubSeq(stdout, 1, n)
         /\ stdout' = SubSeq(stdout, n + 1, Len(stdout))
    /\ UNCHANGED <<vars, bridgeVars, processVars, stdin, reader, tooLong, writer>>

\* A line that is no JSON is skipped.
ScanSkips ==
    /\ reader = "scanning"
    /\ readBuf # <<>>
    /\ Head(readBuf) = "junk"
    /\ readBuf' = Tail(readBuf)
    /\ UNCHANGED <<vars, bridgeVars, processVars, stdout, stdin, reader, tooLong,
                   writer>>

\* Scan returns false: a line over the limit, or no more input.
ScanStops ==
    /\ reader = "scanning"
    /\ \/ /\ readBuf # <<>>
          /\ Head(readBuf) = "long"
          /\ tooLong' = TRUE
       \/ /\ readBuf = <<>>
          /\ ~pipesOpen \/ (ProcessGone /\ stdout = <<>>)
          /\ UNCHANGED tooLong
    /\ reader' = "stopped"
    /\ UNCHANGED <<vars, bridgeVars, processVars, stdout, stdin, readBuf, writer>>

\* An event: the reader calls Send, without a look at the type ...
ReaderCallsSend ==
    /\ reader = "scanning"
    /\ readBuf # <<>>
    /\ Head(readBuf) \in Kinds
    /\ reader' = "sending"
    /\ readBuf' = Tail(readBuf)
    /\ sequence' = sequence + 1
    /\ sendCall' = [sendCall EXCEPT ![Bridge] =
                     [by |-> Bridge, seq |-> sequence + 1, kind |-> Head(readBuf)]]
    /\ UNCHANGED <<mode, ctxDone, sendCh, inbox, routed, recvCall, phase, result,
                   reported, relayVars, bridgeVars, processVars, stdout, stdin,
                   tooLong, writer>>

\* ... which places it and lets the reader go on, or fails and ends it.
ReaderSendReturns ==
    /\ reader = "sending"
    /\ \/ SendEnqueues(Bridge) /\ reader' = "scanning"
       \/ SendAborts(Bridge)   /\ reader' = "stopped"
    /\ UNCHANGED <<bridgeVars, processVars, stdout, stdin, readBuf, tooLong, writer>>

-----------------------------------------------------------------------------
(* The writer goroutine: the loop over session.Receive().                   *)

WriterCallsReceive ==
    /\ writer = "receiving"
    /\ CallReceive
    /\ UNCHANGED subVars

WriterReceiveReturns ==
    /\ writer = "receiving"
    /\ ReceiveReturns
    /\ writer' = IF inbox' # inbox THEN "writing" ELSE "stopped"
    /\ UNCHANGED <<bridgeVars, processVars, stdout, stdin, readerVars>>

\* Encode: blocks while the pipe is full, fails once either end is closed.
WriterEncodes ==
    /\ writer = "writing"
    /\ \/ /\ pipesOpen /\ ~ProcessGone
          /\ stdin < StdinCap
          /\ stdin' = stdin + 1
          /\ writer' = "receiving"
       \/ /\ ~pipesOpen \/ ProcessGone
          /\ writer' = "stopped"
          /\ UNCHANGED stdin
    /\ UNCHANGED <<vars, bridgeVars, processVars, stdout, readerVars>>

-----------------------------------------------------------------------------
Handler == StartProcess \/ StartFails \/ WaitReturns \/ JoinReader
           \/ CancelOwnSession \/ Return

Process ==
    \/ \E line \in Written : ProcessBeginsLine(line)
    \/ ProcessWritesLine \/ ProcessReceives \/ ChildStartsOrEnds \/ ProcessExits
    \/ Kill

Reader == ScanFills \/ ScanSkips \/ ScanStops \/ ReaderCallsSend
          \/ ReaderSendReturns

Writer == WriterCallsReceive \/ WriterReceiveReturns \/ WriterEncodes

\* What the rest of the Space does with the session.
Elsewhere == DeliverMessage \/ Cancel \/ ReportTerminal \/ CleanUp \/ Consume

SubNext ==
    \/ Handler
    \/ Process
    \/ Reader
    \/ Writer
    \/ Elsewhere /\ UNCHANGED subVars

SubSpec == SubInit /\ [][SubNext]_allVars

\* Goroutines run, the kernel moves lines and delivers the kill; nothing is
\* assumed of runner.py or of the processes it starts.
SubFairness ==
    /\ WF_allVars(Handler)
    /\ WF_allVars(ProcessWritesLine)
    /\ WF_allVars(Kill)
    /\ WF_allVars(Reader)
    /\ WF_allVars(Writer)
    /\ WF_allVars(ReportTerminal /\ UNCHANGED subVars)
    /\ WF_allVars(CleanUp /\ UNCHANGED subVars)
    /\ WF_allVars(Consume /\ UNCHANGED subVars)

SubFairSpec == SubSpec /\ SubFairness

-----------------------------------------------------------------------------
(* Properties.                                                              *)

\* The bridge is a handler as AgentSession assumes it: it starts no Send after
\* it has returned and returns with none in flight, so that no event can meet
\* the closed channel, where Send would panic (agent_executor.go:209-214, 269;
\* agent.go:327).
SendsWithinHandler == Spec

\* With one goroutine that sends and RunHandler's report behind it, the numbers
\* grow along the whole stream of a file-mode agent, and nothing follows the
\* report - whatever the process writes, a session.completed of its own included,
\* which the bridge forwards unchecked (agent_executor.go:231-236).
Whole == INSTANCE EventStream
         WITH Source  <- {Bridge},
              arrived <- {[by |-> Bridge, seq |-> e.seq] : e \in arrived},
              status  <- IF relay = "stopped" THEN "ended"
                         ELSE IF peerEnd # "none" THEN "terminated" ELSE "open"

NumbersGrow == Whole!StreamSpec

\* The bridge winds down. The writer goroutine does not outlive the session,
\* wherever it is blocked: Cancel frees it from Receive, the closed pipe from
\* Encode (agent_executor.go:248-263, 271-275). And a cancelled session's bridge
\* returns although the process is blocked on a full pipe, waits for input or
\* has a stalled reader, as long as nothing the process started keeps its pipes
\* open (:165, 266).
BridgeWindsDown ==
    /\ (bridge = "over") ~> (writer \in {"none", "stopped"})
    /\ ctxDone ~> (phase # "running" \/ children)
=============================================================================
