----------------------------- MODULE HttpClient -----------------------------
(***************************************************************************)
(* The latency client apache/http_client/http_client.cpp: a parent that    *)
(* sends NumRequests requests and a forked child that receives the replies *)
(* on the same socket, held together by two pipes: "start" to the child,   *)
(* "ready" and the end time back.  The HTTP server and the connection are  *)
(* external: they are what the client's socket calls can observe.          *)
(***************************************************************************)
EXTENDS Integers, Sequences

CONSTANTS
  NumRequests,  \* num_requests
  RequestLen,   \* length of a request, in the units a buffer holds
  ReplyLen,     \* length of the server's reply to one request
  Cap,          \* units a socket buffer holds, in each direction
  Faults        \* what may fail: see FaultKinds

FaultKinds == {"setup",   \* a pipe, the socket, the address or connect
               "fork",
               "sched",   \* affinity or SCHED_FIFO is refused, to either process
               "kill",    \* a signal ends the parent
               "log",     \* the output file cannot be opened or written
               "server"}  \* the server closes the connection when it likes

ASSUME NumRequestsAssumption == NumRequests \in Nat
ASSUME LengthsAssumption == /\ RequestLen \in Nat \ {0}
                            /\ ReplyLen \in Nat \ {0}
                            /\ Cap \in Nat \ {0}
ASSUME FaultsAssumption == Faults \subseteq FaultKinds

VARIABLES
  parent, child,     \* where each process is
  start_msg,         \* the byte is in the pipe parent_to_child
  child_to_parent,   \* what is in the other pipe, in order
  total_sends,       \* requests the parent still has to send
  remaining,         \* units of the current request still to write
  total_bytes,       \* units the child has read
  end_time,          \* what of the replies had come in at recv_done
  status, logged,
  conn,              \* the connection, as the client sees it
  fin,               \* the client has shut down its sending side
  requests, replies, \* units in the two socket buffers
  parsed, replied,   \* units the server has read and written
  disturbed          \* history: one of the Faults has happened

parentVars == <<parent, total_sends, remaining, end_time, status, logged>>
childVars  == <<child, total_bytes>>
pipeVars   == <<start_msg, child_to_parent>>
sockVars   == <<conn, fin, requests, replies>>
serverVars == <<parsed, replied>>
vars       == <<parentVars, childVars, pipeVars, sockVars, serverVars, disturbed>>

ParentGone == parent = "gone"
ChildGone  == child \in {"zombie", "reaped"}
NoTime     == -1

TypeOK ==
  /\ parent \in {"setup", "fork", "boot", "start", "ready", "send", "shutdown",
                 "end_time", "wait", "log", "gone"}
  /\ child \in {"none", "boot", "start", "ready", "recv", "end", "zombie", "reaped"}
  /\ start_msg \in BOOLEAN
  /\ child_to_parent \in Seq({"ready", "end_time"} \X Nat)
  /\ total_sends \in 0 .. NumRequests /\ remaining \in 0 .. RequestLen
  /\ total_bytes \in Nat /\ end_time \in Nat \cup {NoTime}
  /\ status \in {"running", "ok", "failed", "killed"} /\ logged \in BOOLEAN
  /\ conn \in {"none", "open", "closed", "reset"} /\ fin \in BOOLEAN
  /\ requests \in 0 .. Cap /\ replies \in 0 .. Cap
  /\ parsed \in 0 .. NumRequests * RequestLen
  /\ replied \in 0 .. NumRequests * ReplyLen
  /\ disturbed \in BOOLEAN

Init ==
  /\ parent = "setup" /\ child = "none"
  /\ start_msg = FALSE /\ child_to_parent = <<>>
  /\ total_sends = NumRequests /\ remaining = 0
  /\ total_bytes = 0 /\ end_time = NoTime
  /\ status = "running" /\ logged = FALSE
  /\ conn = "none" /\ fin = FALSE /\ requests = 0 /\ replies = 0
  /\ parsed = 0 /\ replied = 0 /\ disturbed = FALSE

----------------------------------------------------------------------------
(* The parent.                                                              *)

End(how) == parent' = "gone" /\ status' = how
Move(from, to) == parent = from /\ parent' = to

\* A step that ends the parent without a logged time.
ParentFails(how) ==
  /\ End(how)
  /\ UNCHANGED <<total_sends, remaining, end_time, logged, childVars, pipeVars,
                 sockVars, serverVars>>

Connect ==
  /\ Move("setup", "fork") /\ conn' = "open"
  /\ UNCHANGED <<total_sends, remaining, end_time, status, logged, childVars,
                 pipeVars, fin, requests, replies, serverVars>>

Fork ==
  /\ Move("fork", "boot") /\ child' = "boot"
  /\ UNCHANGED <<total_sends, remaining, end_time, status, logged, total_bytes,
                 pipeVars, sockVars, serverVars>>

\* A failed fork is only reported: main falls through and returns 0.
ForkFails == parent = "fork" /\ "fork" \in Faults /\ ParentFails("ok")

\* CPU 0, SCHED_FIFO, and the parent's copies of the child's pipe ends closed.
ParentBoot ==
  /\ Move("boot", "start")
  /\ UNCHANGED <<total_sends, remaining, end_time, status, logged, childVars,
                 pipeVars, sockVars, serverVars>>

SendStart ==
  /\ Move("start", "ready") /\ ~ChildGone
  /\ start_msg' = TRUE
  /\ UNCHANGED <<total_sends, remaining, end_time, status, logged, childVars,
                 child_to_parent, sockVars, serverVars>>

DontWait  == UNCHANGED child_to_parent  \* mutant: the parent does not read the byte
TakeReady == child_to_parent # <<>> /\ child_to_parent' = Tail(child_to_parent)

ReadReady ==
  /\ Move("ready", "send")
  /\ TakeReady
  /\ UNCHANGED <<total_sends, remaining, end_time, status, logged, childVars,
                 start_msg, sockVars, serverVars>>

\* mutant: read returning 0 is reported with exit status 0
LossIgnored ==
  ChildGone /\ parent \in {"ready", "end_time"} /\ child_to_parent = <<>> /\ ParentFails("ok")

\* A pipe whose other end the child's death has closed: SIGPIPE for a write, end
\* of file for a read that finds nothing left.
ParentLosesChild ==
  /\ ChildGone
  /\ \/ parent = "start" /\ ParentFails("killed")
     \/ parent \in {"ready", "end_time"} /\ child_to_parent = <<>> /\ ParentFails("failed")

\* The next request: send_get is called.
NextRequest ==
  /\ parent = "send" /\ remaining = 0 /\ total_sends > 0
  /\ total_sends' = total_sends - 1 /\ remaining' = RequestLen
  /\ UNCHANGED <<parent, end_time, status, logged, childVars, pipeVars, sockVars,
                 serverVars>>

StillToSend(n) == remaining - n

\* write blocks while the buffer is full and may take only a part.  A peer that
\* has closed answers with a reset.
SendGet ==
  /\ parent = "send" /\ remaining > 0
  /\ \/ /\ conn = "open"
        /\ \E n \in 1 .. remaining :
             /\ requests + n <= Cap
             /\ requests' = requests + n /\ remaining' = StillToSend(n)
        /\ UNCHANGED conn
     \/ /\ conn = "closed" /\ conn' = "reset"
        /\ remaining' = 0 /\ UNCHANGED requests
  /\ UNCHANGED <<parent, total_sends, end_time, status, logged, childVars, pipeVars,
                 fin, replies, serverVars>>

\* On a reset connection write fails or raises SIGPIPE, and shutdown fails.
SocketFails ==
  /\ conn = "reset"
  /\ \/ parent = "send" /\ remaining > 0 /\ \E how \in {"failed", "killed"} : ParentFails(how)
     \/ parent = "shutdown" /\ ParentFails("failed")

DoneSending ==
  /\ Move("send", "shutdown") /\ remaining = 0 /\ total_sends = 0
  /\ UNCHANGED <<total_sends, remaining, end_time, status, logged, childVars,
                 pipeVars, sockVars, serverVars>>

NoShutdown == UNCHANGED fin  \* mutant: the sending side stays open
SendFin    == fin' = TRUE

Shutdown ==
  /\ Move("shutdown", "end_time") /\ conn # "reset"
  /\ SendFin
  /\ UNCHANGED <<total_sends, remaining, end_time, status, logged, childVars,
                 pipeVars, conn, requests, replies, serverVars>>

ReadEndTime ==
  /\ Move("end_time", "wait") /\ child_to_parent # <<>>
  /\ end_time' = Head(child_to_parent)[2] /\ child_to_parent' = Tail(child_to_parent)
  /\ UNCHANGED <<total_sends, remaining, status, logged, childVars, start_msg,
                 sockVars, serverVars>>

NoReap == UNCHANGED child  \* mutant: waitpid with WNOHANG
Reap   == child = "zombie" /\ child' = "reaped"

\* wait(NULL): the receiver is the only child there is.
WaitReceiver ==
  /\ Move("wait", "log")
  /\ Reap
  /\ UNCHANGED <<total_sends, remaining, end_time, status, logged, total_bytes,
                 pipeVars, sockVars, serverVars>>

LogTime ==
  /\ parent = "log" /\ End("ok") /\ logged' = TRUE
  /\ UNCHANGED <<total_sends, remaining, end_time, childVars, pipeVars, sockVars,
                 serverVars>>

\* Neither open nor << is checked: nothing is written, and main returns 0.
LogFails == parent = "log" /\ "log" \in Faults /\ ParentFails("ok")

ParentGivesUp ==
  \/ parent = "setup" /\ "setup" \in Faults /\ ParentFails("failed")
  \/ parent = "boot" /\ "sched" \in Faults /\ ParentFails("failed")

ParentStep ==
  \/ Connect \/ Fork \/ ParentBoot \/ SendStart \/ ReadReady
  \/ ParentLosesChild \/ NextRequest \/ SendGet \/ SocketFails \/ DoneSending
  \/ Shutdown \/ ReadEndTime \/ WaitReceiver \/ LogTime

\* SIGINT or SIGTERM: the program has no handlers.
ParentKilled ==
  /\ "kill" \in Faults /\ ~ParentGone
  /\ ParentFails("killed")

----------------------------------------------------------------------------
(* The child: child_task.                                                   *)

ChildMove(from, to) == child = from /\ child' = to

\* CPU 1, SCHED_FIFO, and the child's copies of the parent's pipe ends closed.
ChildBoot ==
  /\ ChildMove("boot", "start")
  /\ UNCHANGED <<total_bytes, pipeVars, sockVars>>

ChildGivesUp ==
  /\ "sched" \in Faults /\ ChildMove("boot", "zombie")
  /\ UNCHANGED <<total_bytes, pipeVars, sockVars, parentVars, serverVars>>

KeepsEnd  == ~ChildGone      \* mutant: parent_to_child[1] is not closed
HoldsEnd  == child = "boot"  \* the child could itself write the start byte

\* The start byte, or the end of file once nobody can write it any more.
ReadStart ==
  /\ child = "start"
  /\ \/ start_msg /\ child' = "ready" /\ start_msg' = FALSE
     \/ ~start_msg /\ ParentGone /\ ~HoldsEnd /\ child' = "zombie" /\ UNCHANGED start_msg
  /\ UNCHANGED <<total_bytes, child_to_parent, sockVars>>

\* A write to the parent, or SIGPIPE when the parent is gone.
Tell(what, from, to) ==
  /\ \/ ~ParentGone /\ ChildMove(from, to) /\ child_to_parent' = Append(child_to_parent, what)
     \/ ParentGone /\ ChildMove(from, "zombie") /\ UNCHANGED child_to_parent
  /\ UNCHANGED <<total_bytes, start_msg, sockVars>>

SendReady   == Tell(<<"ready", 0>>, "ready", "recv")
SendEndTime == Tell(<<"end_time", total_bytes>>, "end", "zombie")

\* read: some of what has come, blocking while the connection is open and empty.
Recv ==
  /\ child = "recv"
  /\ \E n \in 1 .. replies : replies' = replies - n /\ total_bytes' = total_bytes + n
  /\ UNCHANGED <<child, pipeVars, conn, fin, requests>>

OneBuffer == replies = 0  \* mutant: an empty buffer is taken for the end of file
AtEof     == replies = 0 /\ conn # "open"

RecvEof ==
  /\ AtEof
  /\ ChildMove("recv", "end")
  /\ UNCHANGED <<total_bytes, pipeVars, sockVars>>

RecvFails ==
  /\ conn = "reset"
  /\ ChildMove("recv", "zombie")
  /\ UNCHANGED <<total_bytes, pipeVars, sockVars>>

ChildStep == /\ ChildBoot \/ ReadStart \/ SendReady \/ Recv \/ RecvEof \/ RecvFails \/ SendEndTime
             /\ UNCHANGED <<parentVars, serverVars>>

----------------------------------------------------------------------------
(* The server (external): it answers one request after the other, and       *)
(* closes when it has seen the end of the requests and answered them.       *)

Owed == ReplyLen * (parsed \div RequestLen) - replied

\* The client's side is at its end: shut down, or the last process that held
\* the socket is gone.
NoMoreRequests == requests = 0 /\ (fin \/ (ParentGone /\ child \in {"none", "zombie", "reaped"}))

ServerReads ==
  /\ conn = "open" /\ requests > 0 /\ Owed = 0
  /\ requests' = requests - 1 /\ parsed' = parsed + 1
  /\ UNCHANGED <<conn, fin, replies, replied>>

ServerReplies ==
  /\ conn = "open" /\ Owed > 0 /\ replies < Cap
  /\ replies' = replies + 1 /\ replied' = replied + 1
  /\ UNCHANGED <<conn, fin, requests, parsed>>

ServerCloses ==
  /\ conn = "open" /\ NoMoreRequests /\ Owed = 0
  /\ conn' = "closed"
  /\ UNCHANGED <<fin, requests, replies, serverVars>>

\* A timeout, a limit of requests per connection or a crash.
ServerGivesUp ==
  /\ "server" \in Faults /\ conn = "open"
  /\ conn' = IF requests = 0 THEN "closed" ELSE "reset"
  /\ UNCHANGED <<fin, requests, replies, serverVars, parentVars, childVars, pipeVars>>

ServerStep == /\ ServerReads \/ ServerReplies \/ ServerCloses
              /\ UNCHANGED <<parentVars, childVars, pipeVars>>

----------------------------------------------------------------------------

Undisturbed(A) == A /\ UNCHANGED disturbed
Fault(A)       == A /\ disturbed' = TRUE

Next == \/ Undisturbed(ParentStep) \/ Undisturbed(ChildStep) \/ Undisturbed(ServerStep)
        \/ Fault(ForkFails) \/ Fault(LogFails) \/ Fault(ParentGivesUp) \/ Fault(ParentKilled)
        \/ Fault(ChildGivesUp) \/ Fault(ServerGivesUp)

Spec == Init /\ [][Next]_vars

\* Both processes run, and the server serves.  One that gives up idle clients at
\* all (KeepAliveTimeout) gives up one that has been killed.
FairSpec == /\ Spec
            /\ WF_vars(Undisturbed(ParentStep)) /\ WF_vars(Undisturbed(ChildStep))
            /\ WF_vars(Undisturbed(ServerStep)) /\ WF_vars(ParentGone /\ Fault(ServerGivesUp))

----------------------------------------------------------------------------
(* Properties.                                                              *)

\* No request is on its way before the receiver reads the socket, whatever fails:
\* the handshake over the two pipes.
ReceiverFirst ==
  requests > 0 \/ parsed > 0 => child \notin {"none", "boot", "start", "ready"}

\* The time that is logged runs to the last unit of the last reply, unless the
\* server has given up: it is not the time of a part of them.
TimesAllReplies == logged /\ ~disturbed => end_time = NumRequests * ReplyLen

\* A run that has logged a time leaves no child behind, not even as a zombie, and
\* nothing unread in its pipes.
CleanEnd == logged => child = "reaped" /\ child_to_parent = <<>> /\ ~start_msg

\* Of a run that got as far as connecting, exit status 0 without a logged time means
\* one of two things: no receiver could be forked, or everything was measured, the
\* receiver's count is here and it is reaped, and only the output file failed.  The
\* loss of the receiver at any point of the handshake never looks like that.
OkWithoutTime ==
  status = "ok" /\ ~logged =>
    \/ child = "none"
    \/ child = "reaped" /\ end_time = total_bytes /\ child_to_parent = <<>> /\ ~start_msg

\* Every run in which nothing fails logs a time: parent, server and child never
\* all wait for each other, however small the socket buffers.
Completes == <>(logged \/ disturbed)

\* Whatever fails, neither process is left waiting for the other for ever.
BothEnd == <>(ParentGone /\ (ChildGone \/ child = "none"))
============================================================================
