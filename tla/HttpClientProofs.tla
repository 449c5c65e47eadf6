-------------------------- MODULE HttpClientProofs --------------------------
(***************************************************************************)
(* What holds of HttpClient for every number and length of requests and    *)
(* replies, every size of the socket buffers and every choice of faults.   *)
(***************************************************************************)
EXTENDS HttpClient, SequenceTheorems, TLAPS

\* Operators that have a name of their own for the mutants only.
USE DEF TakeReady, SendFin, Reap, StillToSend, HoldsEnd, AtEof

----------------------------------------------------------------------------
(* The inductive invariant.                                                 *)

Ready   == <<"ready", 0>>
EndTime == <<"end_time", total_bytes>>

\* The parent has all it measures: it logs the time, or ends without with status 0.
Measured == parent = "log" \/ logged \/ (status = "ok" /\ child # "none")

\* Where the child can be for each place of the parent.
HandshakeInv ==
  /\ parent \in {"setup", "fork"} => child = "none"
  /\ parent \in {"boot", "start"} => child \in {"boot", "start", "zombie"}
  /\ parent \in {"setup", "fork", "boot", "start"} => ~start_msg
  /\ start_msg => child \in {"boot", "start", "zombie"}
  /\ parent = "ready" /\ ~start_msg => child \in {"ready", "recv", "end", "zombie"}
  /\ parent \in {"send", "shutdown", "end_time"} =>
       ~start_msg /\ child \in {"recv", "end", "zombie"}
  /\ parent = "wait" => ~start_msg /\ child = "zombie" /\ child_to_parent = <<>>
  /\ Measured => ~start_msg /\ child = "reaped" /\ child_to_parent = <<>>
  /\ logged \/ status # "running" => ParentGone

\* What is in the pipe to the parent, and what the parent has taken out of it.
PipeInv ==
  /\ start_msg \/ child \in {"none", "boot", "start", "ready"} => child_to_parent = <<>>
  /\ child \in {"recv", "end"} => child_to_parent \in {<<>>, <<Ready>>}
  /\ child \in {"recv", "end"} /\ parent \in {"send", "shutdown", "end_time"} =>
       child_to_parent = <<>>
  /\ child \in {"recv", "end"} /\ parent = "ready" => child_to_parent = <<Ready>>
  /\ ChildGone => child_to_parent \in {<<>>, <<Ready>>, <<EndTime>>, <<Ready, EndTime>>}
  /\ ChildGone /\ parent = "ready" => child_to_parent # <<EndTime>>
  /\ ChildGone /\ parent \in {"send", "shutdown", "end_time"} =>
       child_to_parent \in {<<>>, <<EndTime>>}
  /\ parent = "wait" \/ Measured => end_time = total_bytes

\* The units that were written and the place each of them has reached.
Sent == (NumRequests - total_sends) * RequestLen - remaining

UnitsInv ==
  /\ parsed + requests <= Sent
  /\ conn # "reset" => parsed + requests = Sent
  /\ conn = "none" => parent \in {"setup", "gone"}
  /\ parent = "setup" => conn = "none"
  /\ total_bytes + replies = replied
  /\ Owed >= 0
  /\ parent \in {"setup", "fork", "boot", "start", "ready"} =>
       total_sends = NumRequests /\ remaining = 0
  /\ fin \/ parent = "shutdown" => total_sends = 0 /\ remaining = 0
  /\ fin => parent \in {"end_time", "wait", "log", "gone"}
  /\ requests > 0 \/ parsed > 0 => child \notin {"none", "boot", "start", "ready"}

\* As long as nothing fails the server closes last, when it has answered everything,
\* and only then the receiver ends, with the end time in the pipe.
CalmInv ==
  ~disturbed =>
    /\ conn # "reset"
    /\ conn = "closed" => fin /\ requests = 0 /\ Owed = 0
    /\ child \in {"end", "zombie", "reaped"} => conn = "closed" /\ replies = 0
    /\ ParentGone => logged
    /\ child = "zombie" /\ parent = "end_time" => child_to_parent = <<EndTime>>

ClientInv == TypeOK /\ HandshakeInv /\ PipeInv /\ UnitsInv /\ CalmInv

----------------------------------------------------------------------------
(* Sequences and arithmetic.                                                *)

\* A second element.
LEMMA AppendPair ==
  ASSUME NEW a, NEW b
  PROVE  Append(<<a>>, b) = <<a, b>>
<1> DEFINE s == Append(<<a>>, b)
<1>1. <<a>> \in Seq({a, b}) /\ Len(<<a>>) = 1 /\ <<a>>[1] = a
  OBVIOUS
<1>2. s \in Seq({a, b}) /\ Len(s) = 2 /\ s[1] = a /\ s[2] = b
  BY <1>1, AppendProperties
<1>3. /\ <<a, b>> \in Seq({a, b}) /\ Len(<<a, b>>) = 2
      /\ <<a, b>>[1] = a /\ <<a, b>>[2] = b
  OBVIOUS
<1> HIDE DEF s
<1>4. s = <<a, b>>
  BY <1>2, <1>3
<1>5. QED
  BY <1>4 DEF s

\* Pipes with at most two messages.
LEMMA Tuples ==
  ASSUME NEW a, NEW b
  PROVE  /\ Append(<<>>, a) = <<a>> /\ Append(<<a>>, b) = <<a, b>>
         /\ Tail(<<a>>) = <<>> /\ Tail(<<a, b>>) = <<b>>
         /\ Head(<<a>>) = a
         /\ <<a>> # <<>> /\ <<a, b>> # <<>> /\ <<a>> # <<b, a>>
<1>1. Append(<<>>, a) = <<a>> /\ Tail(<<a>>) = <<>> /\ Tail(<<a, b>>) = <<b>>
  OBVIOUS
<1>2. Head(<<a>>) = a /\ <<a>> # <<>> /\ <<a, b>> # <<>> /\ <<a>> # <<b, a>>
  OBVIOUS
<1>3. QED
  BY <1>1, <1>2, AppendPair

\* The messages of the handshake are told apart.
LEMMA Messages ==
  <<Ready>> # <<EndTime>> /\ <<Ready, EndTime>> # <<EndTime>> /\ EndTime[2] = total_bytes
<1>1. Ready[1] = "ready" /\ EndTime[1] = "end_time" /\ EndTime[2] = total_bytes
  BY DEF Ready, EndTime
<1>2. QED
  BY <1>1

\* Products grow with their factors.
LEMMA TimesMonotone ==
  ASSUME NEW a \in Nat, NEW b \in Nat, NEW c \in Nat, a <= b
  PROVE  a * c <= b * c
OBVIOUS

\* A request more is its bytes more.
LEMMA OneMore ==
  ASSUME total_sends \in 1 .. NumRequests
  PROVE  (NumRequests - (total_sends - 1)) * RequestLen
           = (NumRequests - total_sends) * RequestLen + RequestLen
BY NumRequestsAssumption, LengthsAssumption

\* Nothing more is sent than the requests contain.
LEMMA SentBound ==
  ASSUME total_sends \in 0 .. NumRequests, remaining \in Nat
  PROVE  /\ NumRequests * RequestLen \in Nat
         /\ Sent \in Int /\ Sent <= NumRequests * RequestLen
<1>1. (NumRequests - total_sends) * RequestLen <= NumRequests * RequestLen
  BY NumRequestsAssumption, LengthsAssumption, TimesMonotone
<1>2. (NumRequests - total_sends) * RequestLen \in Nat /\ NumRequests * RequestLen \in Nat
  BY NumRequestsAssumption, LengthsAssumption
<1>3. QED
  BY <1>1, <1>2 DEF Sent

\* No more is owed than there are whole requests for, and reading adds to it.
LEMMA OwedFacts ==
  ASSUME parsed \in 0 .. NumRequests * RequestLen
  PROVE  /\ ReplyLen * (parsed \div RequestLen) \in Nat
         /\ ReplyLen * (parsed \div RequestLen) <= NumRequests * ReplyLen
         /\ ReplyLen * (parsed \div RequestLen) <= ReplyLen * ((parsed + 1) \div RequestLen)
         /\ parsed = NumRequests * RequestLen =>
              ReplyLen * (parsed \div RequestLen) = NumRequests * ReplyLen
<1> DEFINE q == parsed \div RequestLen
<1> DEFINE q1 == (parsed + 1) \div RequestLen
<1>1. NumRequests * RequestLen \in Nat /\ parsed \in Nat
  BY NumRequestsAssumption, LengthsAssumption
<1>2. /\ q \in Nat /\ parsed = RequestLen * q + (parsed % RequestLen)
      /\ parsed % RequestLen \in 0 .. RequestLen - 1
  BY <1>1, LengthsAssumption
<1>3. /\ q1 \in Nat /\ parsed + 1 = RequestLen * q1 + ((parsed + 1) % RequestLen)
      /\ (parsed + 1) % RequestLen \in 0 .. RequestLen - 1
  BY <1>1, LengthsAssumption
<1>4. q <= NumRequests
  <2> SUFFICES ASSUME NumRequests + 1 <= q PROVE FALSE
    BY <1>2, NumRequestsAssumption
  <2>1. (NumRequests + 1) * RequestLen <= q * RequestLen
    BY <1>2, NumRequestsAssumption, LengthsAssumption, TimesMonotone
  <2>2. (NumRequests + 1) * RequestLen = NumRequests * RequestLen + RequestLen
    BY NumRequestsAssumption, LengthsAssumption
  <2>3. q * RequestLen = RequestLen * q /\ RequestLen * q \in Nat
    BY <1>2, LengthsAssumption
  <2>4. QED
    BY <1>1, <1>2, <2>1, <2>2, <2>3, LengthsAssumption
<1>5. q <= q1
  <2> SUFFICES ASSUME q1 + 1 <= q PROVE FALSE
    BY <1>2, <1>3
  <2>1. (q1 + 1) * RequestLen <= q * RequestLen
    BY <1>2, <1>3, LengthsAssumption, TimesMonotone
  <2>2. (q1 + 1) * RequestLen = RequestLen * q1 + RequestLen
    BY <1>3, LengthsAssumption
  <2>3. q * RequestLen = RequestLen * q /\ RequestLen * q \in Nat /\ RequestLen * q1 \in Nat
    BY <1>2, <1>3, LengthsAssumption
  <2>4. QED
    BY <1>1, <1>2, <1>3, <2>1, <2>2, <2>3, LengthsAssumption
<1>6. parsed = NumRequests * RequestLen => q = NumRequests
  BY NumRequestsAssumption, LengthsAssumption
<1>7. \A n \in Nat : ReplyLen * n = n * ReplyLen /\ ReplyLen * n \in Nat
  BY LengthsAssumption
<1>8. q * ReplyLen <= NumRequests * ReplyLen /\ q * ReplyLen <= q1 * ReplyLen
  BY <1>2, <1>3, <1>4, <1>5, NumRequestsAssumption, LengthsAssumption, TimesMonotone
<1>9. QED
  BY <1>2, <1>3, <1>6, <1>7, <1>8, NumRequestsAssumption
----------------------------------------------------------------------------
(* The handshake.                                                           *)

\* The steps of the parent keep the handshake.
LEMMA HandshakeParent ==
  ASSUME ClientInv, ParentStep
  PROVE  HandshakeInv'
<1> USE DEF ClientInv, TypeOK, HandshakeInv, Measured, Move, End, ParentFails, ParentGone, ChildGone,
            parentVars, childVars, pipeVars
<1>1. CASE Connect
  BY <1>1 DEF Connect
<1>2. CASE Fork
  BY <1>2 DEF Fork
<1>3. CASE ParentBoot
  BY <1>3 DEF ParentBoot
<1>4. CASE SendStart
  BY <1>4 DEF SendStart
<1>5. CASE ReadReady
  BY <1>5 DEF ReadReady, PipeInv
<1>6. CASE ParentLosesChild
  BY <1>6 DEF ParentLosesChild
<1>7. CASE NextRequest \/ SendGet
  BY <1>7 DEF NextRequest, SendGet
<1>8. CASE SocketFails
  BY <1>8 DEF SocketFails
<1>9. CASE DoneSending \/ Shutdown
  BY <1>9 DEF DoneSending, Shutdown
<1>10. CASE ReadEndTime
  BY <1>10, Tuples DEF ReadEndTime, PipeInv
<1>11. CASE WaitReceiver
  BY <1>11 DEF WaitReceiver
<1>12. CASE LogTime
  BY <1>12 DEF LogTime
<1>13. QED
  BY <1>1, <1>2, <1>3, <1>4, <1>5, <1>6, <1>7, <1>8, <1>9, <1>10, <1>11, <1>12
     DEF ParentStep

\* So do those of the child, of the server and of what may fail.
LEMMA HandshakeOthers ==
  ASSUME ClientInv,
         ChildStep \/ ServerStep \/ ServerGivesUp \/ ForkFails \/ LogFails \/ ParentGivesUp
           \/ ParentKilled \/ ChildGivesUp
  PROVE  HandshakeInv'
<1> USE DEF ClientInv, HandshakeInv, Measured, ParentGone, ChildGone, parentVars, childVars,
            pipeVars
<1>1. CASE ChildStep
  BY <1>1 DEF ChildStep, ChildBoot, ReadStart, SendReady, SendEndTime, Tell, Recv,
              RecvEof, RecvFails, ChildMove
<1>2. CASE ServerStep \/ ServerGivesUp
  BY <1>2 DEF ServerStep, ServerGivesUp
<1>3. CASE ForkFails \/ LogFails \/ ParentGivesUp \/ ParentKilled
  <2>1. /\ parent' = "gone" /\ UNCHANGED <<logged, child, start_msg, child_to_parent>>
        /\ parent \in {"fork", "log"} \/ status' # "ok"
    BY <1>3 DEF ForkFails, LogFails, ParentGivesUp, ParentKilled, ParentFails, End
  <2>2. /\ parent # "gone" /\ parent' \notin {"boot", "start", "ready", "send", "shutdown", "wait", "log"}
    BY <1>3, <2>1 DEF ForkFails, LogFails, ParentGivesUp, ParentKilled
  <2>3. QED
    BY <2>1, <2>2
<1>4. CASE ChildGivesUp
  BY <1>4 DEF ChildGivesUp, ChildMove
<1>5. QED
  BY <1>1, <1>2, <1>3, <1>4
\* What the two pipes hold.
LEMMA PipeParent ==
  ASSUME ClientInv, ParentStep
  PROVE  PipeInv'
<1> USE DEF ClientInv, TypeOK, HandshakeInv, PipeInv, Measured, Move, End, ParentFails, ParentGone,
            ChildGone, parentVars, childVars, pipeVars
<1>1. EndTime' = EndTime
  BY DEF ParentStep, Connect, Fork, ParentBoot, SendStart, ReadReady, ParentLosesChild,
         NextRequest, SendGet, SocketFails, DoneSending, Shutdown, ReadEndTime,
         WaitReceiver, LogTime, EndTime
<1>2. CASE Connect
  BY <1>1, <1>2 DEF Connect
<1>3. CASE Fork
  BY <1>1, <1>3 DEF Fork
<1>4. CASE ParentBoot
  BY <1>1, <1>4 DEF ParentBoot
<1>5. CASE SendStart
  BY <1>1, <1>5, Tuples DEF SendStart
<1>6. CASE ReadReady
  <2>1. /\ parent = "ready" /\ parent' = "send" /\ child_to_parent # <<>>
        /\ child_to_parent' = Tail(child_to_parent)
        /\ UNCHANGED <<child, start_msg, end_time, total_bytes, status, logged>>
    BY <1>6 DEF ReadReady, TakeReady
  <2>2. /\ Tail(<<Ready>>) = <<>> /\ Tail(<<Ready, EndTime>>) = <<EndTime>>
    BY Tuples
  <2>3. CASE child \in {"recv", "end"}
    BY <1>1, <2>1, <2>2, <2>3
  <2>4. CASE ChildGone
    <3>1. child_to_parent \in {<<Ready>>, <<Ready, EndTime>>}
      BY <2>1, <2>4
    <3>2. child_to_parent' \in {<<>>, <<EndTime>>}
      BY <2>1, <2>2, <3>1
    <3>3. QED
      BY <1>1, <2>1, <2>4, <3>2
  <2>5. child \in {"recv", "end"} \/ ChildGone
    BY <2>1
  <2>6. QED
    BY <2>3, <2>4, <2>5
<1>7. CASE ParentLosesChild
  <2>1. /\ parent' = "gone" /\ status' # "ok"
        /\ UNCHANGED <<child, start_msg, child_to_parent, end_time, total_bytes, logged>>
    BY <1>7 DEF ParentLosesChild
  <2>2. QED
    BY <1>1, <2>1
<1>8. CASE NextRequest \/ SendGet
  BY <1>1, <1>8 DEF NextRequest, SendGet
<1>9. CASE SocketFails
  BY <1>1, <1>9 DEF SocketFails
<1>10. CASE DoneSending \/ Shutdown
  BY <1>1, <1>10 DEF DoneSending, Shutdown
<1>11. CASE ReadEndTime
  <2>1. child = "zombie" /\ child_to_parent = <<EndTime>>
    BY <1>11 DEF ReadEndTime
  <2>2. child_to_parent' = <<>> /\ end_time' = total_bytes
    BY <1>11, <2>1, Tuples, Messages DEF ReadEndTime
  <2>3. QED
    BY <1>11, <2>1, <2>2 DEF ReadEndTime
<1>12. CASE WaitReceiver
  BY <1>1, <1>12 DEF WaitReceiver
<1>13. CASE LogTime
  BY <1>1, <1>13 DEF LogTime
<1>14. QED
  BY <1>2, <1>3, <1>4, <1>5, <1>6, <1>7, <1>8, <1>9, <1>10, <1>11, <1>12, <1>13
     DEF ParentStep

\* The steps of the child and the server, and the faults, keep what the pipes hold.
LEMMA PipeOthers ==
  ASSUME ClientInv,
         ChildStep \/ ServerStep \/ ServerGivesUp \/ ForkFails \/ LogFails \/ ParentGivesUp
           \/ ParentKilled \/ ChildGivesUp
  PROVE  PipeInv'
<1> USE DEF ClientInv, HandshakeInv, PipeInv, Measured, ParentGone, ChildGone, parentVars, childVars,
            pipeVars, ChildMove
<1>1. CASE ChildBoot /\ UNCHANGED parentVars
  BY <1>1 DEF ChildBoot, EndTime
<1>2. CASE ReadStart /\ UNCHANGED parentVars
  BY <1>2 DEF ReadStart, EndTime
<1>3. CASE SendReady /\ UNCHANGED parentVars
  BY <1>3, Tuples DEF SendReady, Tell, EndTime, Ready
<1>4. CASE Recv /\ UNCHANGED parentVars
  BY <1>4 DEF Recv
<1>5. CASE (RecvEof \/ RecvFails) /\ UNCHANGED parentVars
  <2>1. EndTime' = EndTime
    BY <1>5 DEF RecvEof, RecvFails, EndTime
  <2>2. QED
    BY <1>5, <2>1, Messages DEF RecvEof, RecvFails
<1>6. CASE SendEndTime /\ UNCHANGED parentVars
  <2>1. EndTime' = EndTime /\ child = "end" /\ child' = "zombie"
    BY <1>6 DEF SendEndTime, Tell, EndTime
  <2>2. child_to_parent' \in {child_to_parent, Append(child_to_parent, EndTime)}
    BY <1>6 DEF SendEndTime, Tell, EndTime
  <2>3. child_to_parent' \in {<<>>, <<Ready>>, <<EndTime>>, <<Ready, EndTime>>}
    BY <2>1, <2>2, Tuples
  <2>4. parent = "ready" => child_to_parent = <<Ready>>
    BY <2>1
  <2>5. QED
    BY <1>6, <2>1, <2>2, <2>3, <2>4, Tuples, Messages DEF SendEndTime, Tell
<1>7. CASE ServerStep \/ ServerGivesUp
  BY <1>7 DEF ServerStep, ServerGivesUp, EndTime
<1>8. CASE ForkFails \/ LogFails \/ ParentGivesUp \/ ParentKilled
  BY <1>8 DEF ForkFails, LogFails, ParentGivesUp, ParentKilled, ParentFails, End, EndTime
<1>9. CASE ChildGivesUp
  BY <1>9 DEF ChildGivesUp, EndTime
<1>10. QED
  BY <1>1, <1>2, <1>3, <1>4, <1>5, <1>6, <1>7, <1>8, <1>9 DEF ChildStep

----------------------------------------------------------------------------
(* Units, and the types of the counters.                                    *)

\* The counters, and what Sent and Owed are made of.
LEMMA Frame ==
  ASSUME TypeOK
  PROVE  /\ requests \in Nat /\ replies \in Nat /\ parsed \in Nat /\ replied \in Nat
         /\ total_sends \in Nat /\ remaining \in Nat /\ total_bytes \in Nat
         /\ Sent \in Int /\ Owed \in Int
         /\ UNCHANGED <<total_sends, remaining>> => Sent' = Sent
         /\ UNCHANGED <<parsed, replied>> => Owed' = Owed
<1>1. Sent \in Int
  BY SentBound, LengthsAssumption DEF TypeOK
<1>2. Owed \in Int
  BY OwedFacts, NumRequestsAssumption, LengthsAssumption DEF TypeOK, Owed
<1>3. /\ requests \in Nat /\ replies \in Nat /\ parsed \in Nat /\ replied \in Nat
      /\ total_sends \in Nat /\ remaining \in Nat /\ total_bytes \in Nat
  BY NumRequestsAssumption, LengthsAssumption DEF TypeOK
<1>4. UNCHANGED <<total_sends, remaining>> => Sent' = Sent
  BY DEF Sent
<1>5. UNCHANGED <<parsed, replied>> => Owed' = Owed
  BY DEF Owed
<1>6. QED
  BY <1>1, <1>2, <1>3, <1>4, <1>5

\* What the parent does with the requests.
LEMMA UnitsParent ==
  ASSUME ClientInv, ParentStep
  PROVE  UnitsInv'
<1> USE DEF HandshakeInv, UnitsInv, Move, End, ParentFails, ParentGone, ChildGone,
            parentVars, childVars, pipeVars, sockVars, serverVars
<1>1. TypeOK /\ HandshakeInv /\ UnitsInv
  BY DEF ClientInv
<1>2. CASE Connect
  <2>1. Sent' = Sent /\ Owed' = Owed
    BY <1>1, <1>2, Frame DEF Connect
  <2>2. QED
    BY <1>1, <1>2, <2>1 DEF Connect
<1>3. CASE Fork
  <2>1. Sent' = Sent /\ Owed' = Owed
    BY <1>1, <1>3, Frame DEF Fork
  <2>2. requests = 0 /\ parsed = 0
    BY <1>1, <1>3, Frame DEF Fork
  <2>3. QED
    BY <1>1, <1>3, <2>1, <2>2 DEF Fork
<1>4. CASE ParentBoot
  <2>1. Sent' = Sent /\ Owed' = Owed
    BY <1>1, <1>4, Frame DEF ParentBoot
  <2>2. QED
    BY <1>1, <1>4, <2>1 DEF ParentBoot
<1>5. CASE SendStart
  <2>1. Sent' = Sent /\ Owed' = Owed
    BY <1>1, <1>5, Frame DEF SendStart
  <2>2. QED
    BY <1>1, <1>5, <2>1 DEF SendStart
<1>6. CASE ReadReady
  <2>1. Sent' = Sent /\ Owed' = Owed
    BY <1>1, <1>6, Frame DEF ReadReady
  <2>2. QED
    BY <1>1, <1>6, <2>1 DEF ReadReady
<1>7. CASE ParentLosesChild
  <2>1. Sent' = Sent /\ Owed' = Owed
    BY <1>1, <1>7, Frame DEF ParentLosesChild
  <2>2. QED
    BY <1>1, <1>7, <2>1 DEF ParentLosesChild
<1>8. CASE NextRequest
  <2>1. Sent' = Sent
    BY <1>8, <1>1, OneMore, NumRequestsAssumption, LengthsAssumption
       DEF NextRequest, Sent, TypeOK
  <2>2. Owed' = Owed
    BY <1>1, <1>8, Frame DEF NextRequest
  <2>3. QED
    BY <1>1, <1>8, <2>1, <2>2, Frame DEF NextRequest
<1>9. CASE SendGet
  <2>1. Owed' = Owed
    BY <1>1, <1>9, Frame DEF SendGet
  <2>2. CASE conn = "open"
    <3>1. PICK n \in 1 .. remaining : requests' = requests + n /\ remaining' = remaining - n
      BY <1>9, <2>2 DEF SendGet
    <3>4. /\ parent = "send" /\ parent' = "send" /\ conn' = "open" /\ fin' = fin /\ child' = child
          /\ UNCHANGED <<total_sends, total_bytes, replies, parsed, replied>>
      BY <1>9, <2>2 DEF SendGet
    <3>2. Sent' = Sent + n
      BY <1>1, <1>9, <3>1, NumRequestsAssumption, LengthsAssumption DEF SendGet, Sent, TypeOK
    <3>3. QED
      <4>1. parsed' + requests' = Sent' /\ total_bytes' + replies' = replied' /\ Owed' >= 0
        <5>1. /\ parsed \in Nat /\ requests \in Nat /\ total_bytes \in Nat /\ replies \in Nat
              /\ parsed + requests = Sent /\ total_bytes + replies = replied /\ Owed >= 0
          BY <1>1, <2>2, <3>4, Frame
        <5>2. Sent \in Int /\ n \in Int
          BY <3>1, <5>1, Frame
        <5>3. QED
          BY <2>1, <3>1, <3>2, <3>4, <5>1, <5>2
      <4>2. ~fin /\ ~fin' /\ child' \in {"recv", "end", "zombie"}
        BY <1>1, <3>4
      <4>3. QED
        <5>1. conn' # "none" /\ parent' \notin {"setup", "fork", "boot", "start", "ready", "shutdown"}
          BY <3>4
        <5>2. parsed' + requests' <= Sent'
          <6>1. parsed' \in Int /\ requests' \in Int
            BY <1>1, <3>1, <3>4, Frame
          <6>2. QED
            BY <4>1, <6>1
        <5> HIDE DEF Owed, Sent
        <5>3. QED
          BY <4>1, <4>2, <5>1, <5>2 DEF UnitsInv
  <2>3. CASE conn = "closed"
    <3>1. requests' = requests /\ remaining' = 0 /\ conn' = "reset" /\ remaining > 0
      BY <1>9, <2>3 DEF SendGet
    <3>2. Sent' = Sent + remaining
      BY <1>1, <1>9, <3>1, NumRequestsAssumption, LengthsAssumption DEF SendGet, Sent, TypeOK
    <3>3. QED
      BY <1>1, <1>9, <2>1, <2>3, <3>1, <3>2, Frame DEF SendGet
  <2>4. QED
    BY <1>9, <2>2, <2>3 DEF SendGet
<1>10. CASE SocketFails
  <2>1. Sent' = Sent /\ Owed' = Owed
    BY <1>1, <1>10, Frame DEF SocketFails
  <2>2. QED
    BY <1>1, <1>10, <2>1 DEF SocketFails
<1>11. CASE DoneSending \/ Shutdown
  <2>1. Sent' = Sent /\ Owed' = Owed
    BY <1>1, <1>11, Frame DEF DoneSending, Shutdown
  <2>2. QED
    BY <1>1, <1>11, <2>1 DEF DoneSending, Shutdown
<1>12. CASE ReadEndTime
  <2>1. Sent' = Sent /\ Owed' = Owed
    BY <1>1, <1>12, Frame DEF ReadEndTime
  <2>2. QED
    BY <1>1, <1>12, <2>1 DEF ReadEndTime
<1>13. CASE WaitReceiver
  <2>1. Sent' = Sent /\ Owed' = Owed
    BY <1>1, <1>13, Frame DEF WaitReceiver
  <2>2. QED
    BY <1>1, <1>13, <2>1 DEF WaitReceiver
<1>14. CASE LogTime
  <2>1. Sent' = Sent /\ Owed' = Owed
    BY <1>1, <1>14, Frame DEF LogTime
  <2>2. QED
    BY <1>1, <1>14, <2>1 DEF LogTime
<1>15. QED
  BY <1>2, <1>3, <1>4, <1>5, <1>6, <1>7, <1>8, <1>9, <1>10, <1>11, <1>12, <1>13, <1>14
     DEF ParentStep

\* What the child and the server do with the replies.
LEMMA UnitsOthers ==
  ASSUME ClientInv,
         ChildStep \/ ServerStep \/ ServerGivesUp \/ ForkFails \/ LogFails \/ ParentGivesUp
           \/ ParentKilled \/ ChildGivesUp
  PROVE  UnitsInv'
<1> USE DEF UnitsInv, parentVars, childVars, pipeVars, sockVars, serverVars
<1>1. TypeOK /\ UnitsInv
  BY DEF ClientInv
<1>2. CASE ChildStep
  <2>1. Sent' = Sent /\ Owed' = Owed
    BY <1>1, <1>2, Frame DEF ChildStep
  <2>2. CASE ChildBoot \/ ReadStart \/ SendReady \/ RecvEof \/ RecvFails \/ SendEndTime
    BY <1>1, <1>2, <2>1, <2>2, Frame
       DEF ChildStep, ChildBoot, ReadStart, SendReady, RecvEof, RecvFails, SendEndTime,
           Tell, ChildMove
  <2>3. CASE Recv
    BY <1>1, <1>2, <2>1, <2>3, Frame DEF ChildStep, Recv
  <2>4. QED
    BY <1>2, <2>2, <2>3 DEF ChildStep
<1>3. CASE ServerReads /\ UNCHANGED <<parentVars, childVars, pipeVars>>
  <2>1. /\ Sent' = Sent /\ requests' = requests - 1 /\ parsed' = parsed + 1
        /\ replied' = replied /\ Owed = 0
    BY <1>1, <1>3, Frame DEF ServerReads
  <2>2. Owed' >= 0
    <3> DEFINE a == ReplyLen * (parsed \div RequestLen)
               b == ReplyLen * ((parsed + 1) \div RequestLen)
    <3>1. a \in Nat /\ a <= b /\ Owed = a - replied /\ Owed' = b - replied
      BY <1>1, <2>1, OwedFacts DEF Owed, TypeOK
    <3>2. parsed + 1 \in Nat /\ b \in Int
      BY <1>1, Frame, LengthsAssumption
    <3> HIDE DEF a, b
    <3>3. QED
      BY <1>1, <2>1, <3>1, <3>2, Frame
  <2>3. QED
    BY <1>1, <1>3, <2>1, <2>2, Frame DEF ServerReads
<1>4. CASE ServerReplies /\ UNCHANGED <<parentVars, childVars, pipeVars>>
  <2>1. Sent' = Sent /\ parsed' = parsed /\ replied' = replied + 1 /\ replies' = replies + 1
    BY <1>1, <1>4, Frame DEF ServerReplies
  <2>2. Owed' = Owed - 1
    BY <1>1, <2>1, OwedFacts, Frame DEF Owed, TypeOK
  <2>3. QED
    BY <1>1, <1>4, <2>1, <2>2, Frame DEF ServerReplies
<1>5. CASE ServerCloses /\ UNCHANGED <<parentVars, childVars, pipeVars>>
  <2>1. Sent' = Sent /\ Owed' = Owed
    BY <1>1, <1>5, Frame DEF ServerCloses
  <2>2. QED
    BY <1>1, <1>5, <2>1 DEF ServerCloses
<1>6. CASE ServerGivesUp
  <2>1. Sent' = Sent /\ Owed' = Owed
    BY <1>1, <1>6, Frame DEF ServerGivesUp
  <2>2. QED
    BY <1>1, <1>6, <2>1, Frame DEF ServerGivesUp
<1>7. CASE ForkFails \/ LogFails \/ ParentGivesUp \/ ParentKilled
  <2>1. Sent' = Sent /\ Owed' = Owed
    BY <1>1, <1>7, Frame DEF ForkFails, LogFails, ParentGivesUp, ParentKilled, ParentFails
  <2>2. QED
    BY <1>1, <1>7, <2>1 DEF ForkFails, LogFails, ParentGivesUp, ParentKilled, ParentFails, End
<1>8. CASE ChildGivesUp
  <2>1. Sent' = Sent /\ Owed' = Owed
    BY <1>1, <1>8, Frame DEF ChildGivesUp
  <2>2. QED
    BY <1>1, <1>8, <2>1, Frame DEF ChildGivesUp, ChildMove
<1>9. QED
  BY <1>2, <1>3, <1>4, <1>5, <1>6, <1>7, <1>8 DEF ServerStep

----------------------------------------------------------------------------
(* A run in which nothing fails.                                            *)

\* Without a fault the parent finds its child and the connection alive.
LEMMA CalmParent ==
  ASSUME ClientInv, ParentStep, UNCHANGED disturbed
  PROVE  CalmInv'
<1> SUFFICES ASSUME ~disturbed PROVE CalmInv'
  BY DEF CalmInv
<1> USE DEF HandshakeInv, Measured, CalmInv, Move, End, ParentFails, ParentGone, ChildGone,
            parentVars, childVars, pipeVars, sockVars, serverVars
<1>1. TypeOK /\ HandshakeInv /\ CalmInv
  BY DEF ClientInv
<1>2. UNCHANGED <<total_bytes, parsed, replied>>
  BY DEF ParentStep, Connect, Fork, ParentBoot, SendStart, ReadReady, ParentLosesChild,
         NextRequest, SendGet, SocketFails, DoneSending, Shutdown, ReadEndTime,
         WaitReceiver, LogTime
<1>3. EndTime' = EndTime /\ Owed' = Owed
  BY <1>1, <1>2, Frame DEF EndTime
<1>4. fin => parent \in {"end_time", "wait", "log", "gone"}
  BY DEF ClientInv, UnitsInv
<1>5. CASE Connect
  BY <1>1, <1>3, <1>5 DEF Connect
<1>6. CASE Fork
  BY <1>1, <1>3, <1>6 DEF Fork
<1>7. CASE ParentBoot \/ SendStart
  BY <1>1, <1>3, <1>4, <1>7 DEF ParentBoot, SendStart
<1>8. CASE ReadReady
  BY <1>1, <1>3, <1>4, <1>8 DEF ReadReady
<1>9. CASE ParentLosesChild
  BY <1>1, <1>4, <1>9 DEF ParentLosesChild
<1>10. CASE NextRequest \/ DoneSending
  BY <1>1, <1>3, <1>4, <1>10 DEF NextRequest, DoneSending
<1>11. CASE SendGet
  BY <1>1, <1>3, <1>4, <1>11 DEF SendGet
<1>12. CASE SocketFails
  BY <1>1, <1>12 DEF SocketFails
<1>13. CASE Shutdown
  BY <1>1, <1>3, <1>4, <1>13 DEF Shutdown
<1>14. CASE ReadEndTime \/ WaitReceiver
  BY <1>1, <1>3, <1>14 DEF ReadEndTime, WaitReceiver
<1>15. CASE LogTime
  BY <1>1, <1>3, <1>15 DEF LogTime
<1>16. QED
  BY <1>5, <1>6, <1>7, <1>8, <1>9, <1>10, <1>11, <1>12, <1>13, <1>14, <1>15 DEF ParentStep

\* Without a fault the child ends after the server has closed, and the server closes
\* after the client has.
LEMMA CalmOthers ==
  ASSUME ClientInv, ChildStep \/ ServerStep, UNCHANGED disturbed
  PROVE  CalmInv'
<1> SUFFICES ASSUME ~disturbed PROVE CalmInv'
  BY DEF CalmInv
<1> USE DEF HandshakeInv, Measured, CalmInv, ParentGone, ChildGone, ChildMove,
            parentVars, childVars, pipeVars, sockVars, serverVars
<1>1. TypeOK /\ HandshakeInv /\ CalmInv
  BY DEF ClientInv
<1>2. conn = "none" => parent \in {"setup", "gone"}
  BY DEF ClientInv, UnitsInv
<1>3. child # "reaped" => ~ParentGone
  BY <1>1
<1>4. CASE ChildStep
  <2>1. UNCHANGED <<conn, fin, requests, parentVars, serverVars>> /\ Owed' = Owed
    BY <1>1, <1>4, Frame
       DEF ChildStep, ChildBoot, ReadStart, SendReady, Recv, RecvEof, RecvFails, SendEndTime, Tell
  <2>2. CASE ChildBoot \/ ReadStart \/ SendReady \/ Recv
    BY <1>1, <1>3, <2>1, <2>2 DEF ChildBoot, ReadStart, SendReady, Recv, Tell
  <2>3. CASE RecvEof
    BY <1>1, <1>2, <1>3, <2>1, <2>3 DEF RecvEof, TypeOK
  <2>4. CASE RecvFails
    BY <1>1, <2>4 DEF RecvFails
  <2>5. CASE SendEndTime
    <3>1. /\ child = "end" /\ child' = "zombie" /\ EndTime' = EndTime
          /\ child_to_parent' = Append(child_to_parent, EndTime) /\ replies' = replies
      BY <1>1, <1>3, <2>5 DEF SendEndTime, Tell, EndTime
    <3>2. parent = "end_time" => child_to_parent' = <<EndTime>>
      BY <3>1, Tuples DEF ClientInv, PipeInv
    <3>3. QED
      BY <1>1, <1>3, <2>1, <3>1, <3>2
  <2>6. QED
    BY <1>4, <2>2, <2>3, <2>4, <2>5 DEF ChildStep
<1>5. CASE ServerStep
  <2>1. UNCHANGED <<parentVars, childVars, pipeVars>> /\ EndTime' = EndTime
    BY <1>5 DEF ServerStep, EndTime
  <2>2. CASE ServerReads \/ ServerReplies
    BY <1>1, <2>1, <2>2 DEF ServerReads, ServerReplies
  <2>3. CASE ServerCloses
    BY <1>1, <1>3, <2>1, <2>3, Frame DEF ServerCloses, NoMoreRequests
  <2>4. QED
    BY <1>5, <2>2, <2>3 DEF ServerStep
<1>6. QED
  BY <1>4, <1>5

----------------------------------------------------------------------------
(* Types.                                                                   *)

\* The pipe to the parent holds messages, and their numbers.
LEMMA PipeTyped ==
  ASSUME TypeOK, PipeInv, total_bytes \in Nat
  PROVE  /\ Append(child_to_parent, Ready) \in Seq({"ready", "end_time"} \X Nat)
         /\ Append(child_to_parent, EndTime) \in Seq({"ready", "end_time"} \X Nat)
         /\ child_to_parent # <<>> => Tail(child_to_parent) \in Seq({"ready", "end_time"} \X Nat)
<1>1. Ready \in {"ready", "end_time"} \X Nat /\ EndTime \in {"ready", "end_time"} \X Nat
  BY DEF Ready, EndTime
<1>2. child_to_parent \in Seq({"ready", "end_time"} \X Nat)
  BY DEF TypeOK
<1>3. QED
  BY <1>1, <1>2, AppendProperties, HeadTailProperties

\* The types of a step that moves the two processes and writes the pipe of the child only.
LEMMA TypeMoves ==
  ASSUME TypeOK, disturbed' \in BOOLEAN, start_msg' \in BOOLEAN,
         parent' \in {parent, "start", "ready"},
         child' \in {child, "ready", "zombie"},
         UNCHANGED <<total_sends, remaining, end_time, status, logged, total_bytes,
                     child_to_parent, sockVars, serverVars>>
  PROVE  TypeOK'
<1>1. /\ parsed' \in 0 .. NumRequests * RequestLen
      /\ replied' \in 0 .. NumRequests * ReplyLen
  BY Zenon DEF TypeOK, serverVars
<1>2. /\ total_sends' \in 0 .. NumRequests /\ remaining' \in 0 .. RequestLen
      /\ total_bytes' \in Nat /\ end_time' \in Nat \cup {NoTime}
      /\ status' \in {"running", "ok", "failed", "killed"} /\ logged' \in BOOLEAN
      /\ child_to_parent' \in Seq({"ready", "end_time"} \X Nat)
  BY Zenon DEF TypeOK
<1>3. /\ conn' \in {"none", "open", "closed", "reset"} /\ fin' \in BOOLEAN
      /\ requests' \in 0 .. Cap /\ replies' \in 0 .. Cap
  BY Zenon DEF TypeOK, sockVars
<1>4. parent' \in {"setup", "fork", "boot", "start", "ready", "send", "shutdown",
                   "end_time", "wait", "log", "gone"}
  BY DEF TypeOK
<1>5. child' \in {"none", "boot", "start", "ready", "recv", "end", "zombie", "reaped"}
  BY DEF TypeOK
<1>6. QED
  BY <1>1, <1>2, <1>3, <1>4, <1>5 DEF TypeOK

\* No step leaves the types.
LEMMA TypeParent ==
  ASSUME ClientInv, ParentStep, UNCHANGED disturbed
  PROVE  TypeOK'
<1> USE DEF TypeOK, Move, End, ParentFails, ParentGone, ChildGone,
            parentVars, childVars, pipeVars, sockVars, serverVars
<1>1. TypeOK /\ PipeInv
  BY DEF ClientInv
<1>2. /\ child_to_parent # <<>> => Tail(child_to_parent) \in Seq({"ready", "end_time"} \X Nat)
      /\ total_bytes \in Nat /\ requests \in Nat /\ remaining \in Nat /\ total_sends \in Nat
  BY <1>1, PipeTyped, Frame
<1>3. CASE Connect \/ Fork
  BY <1>1, <1>3 DEF Connect, Fork
<1>4. CASE ParentBoot \/ SendStart
  <2>1. /\ parent' \in {"start", "ready"} /\ start_msg' \in BOOLEAN
        /\ UNCHANGED <<total_sends, remaining, end_time, status, logged, childVars,
                       child_to_parent, sockVars, serverVars>>
    BY <1>1, <1>4 DEF ParentBoot, SendStart
  <2>2. disturbed' \in BOOLEAN
    BY <1>1
  <2> HIDE DEF TypeOK, sockVars, serverVars
  <2>3. QED
    BY <1>1, <2>1, <2>2, TypeMoves
<1>5. CASE ReadReady
  BY <1>1, <1>2, <1>5 DEF ReadReady
<1>6. CASE ParentLosesChild
  BY <1>1, <1>6 DEF ParentLosesChild
<1>7. CASE NextRequest
  BY <1>1, <1>7, NumRequestsAssumption, LengthsAssumption DEF NextRequest
<1>8. CASE SendGet
  <2>1. requests' \in 0 .. Cap /\ remaining' \in 0 .. RequestLen /\ conn' \in {"open", "reset"}
    BY <1>1, <1>2, <1>8, LengthsAssumption DEF SendGet
  <2>2. QED
    BY <1>1, <1>8, <2>1 DEF SendGet
<1>9. CASE SocketFails
  BY <1>1, <1>9 DEF SocketFails
<1>10. CASE DoneSending \/ Shutdown
  <2>1. CASE DoneSending
    BY <1>1, <2>1 DEF DoneSending
  <2>2. CASE Shutdown
    BY <1>1, <2>2 DEF Shutdown
  <2>3. QED
    BY <1>10, <2>1, <2>2
<1>11. CASE ReadEndTime
  <2>1. end_time' = total_bytes'
    BY <1>11, PipeParent DEF PipeInv, ReadEndTime
  <2>2. total_bytes' = total_bytes
    BY <1>11 DEF ReadEndTime
  <2>3. QED
    BY <1>1, <1>2, <1>11, <2>1, <2>2 DEF ReadEndTime
<1>12. CASE WaitReceiver \/ LogTime
  BY <1>1, <1>12 DEF WaitReceiver, LogTime
<1>13. QED
  BY <1>3, <1>4, <1>5, <1>6, <1>7, <1>8, <1>9, <1>10, <1>11, <1>12 DEF ParentStep

\* The server never reads more than was sent, nor answers more than it has read.
LEMMA TypeOthers ==
  ASSUME ClientInv, disturbed' \in BOOLEAN,
         ChildStep \/ ServerStep \/ ServerGivesUp \/ ForkFails \/ LogFails \/ ParentGivesUp
           \/ ParentKilled \/ ChildGivesUp
  PROVE  TypeOK'
<1> USE DEF TypeOK, End, ParentFails, ChildMove,
            parentVars, childVars, pipeVars, sockVars, serverVars
<1>1. TypeOK /\ PipeInv /\ UnitsInv
  BY DEF ClientInv
<1>2. /\ Append(child_to_parent, Ready) \in Seq({"ready", "end_time"} \X Nat)
      /\ Append(child_to_parent, EndTime) \in Seq({"ready", "end_time"} \X Nat)
  BY <1>1, PipeTyped
<1>3. CASE ChildBoot /\ UNCHANGED <<parentVars, serverVars>>
  BY <1>1, <1>3 DEF ChildBoot
<1>4. CASE ReadStart /\ UNCHANGED <<parentVars, serverVars>>
  <2>1. /\ child' \in {"ready", "zombie"} /\ start_msg' \in BOOLEAN
        /\ UNCHANGED <<total_bytes, child_to_parent, sockVars, parentVars, serverVars>>
    BY <1>1, <1>4 DEF ReadStart
  <2> HIDE DEF TypeOK, sockVars, serverVars
  <2>2. QED
    BY <1>1, <2>1, TypeMoves
<1>5. CASE SendReady /\ UNCHANGED <<parentVars, serverVars>>
  <2>1. /\ child_to_parent' \in {child_to_parent, Append(child_to_parent, Ready)}
        /\ child' \in {"recv", "zombie"} /\ UNCHANGED <<total_bytes, start_msg>>
        /\ UNCHANGED <<parentVars, sockVars, serverVars>>
    BY <1>5 DEF SendReady, Tell, Ready
  <2>2. child_to_parent' \in Seq({"ready", "end_time"} \X Nat)
    BY <1>1, <1>2, <2>1
  <2>3. QED
    BY <1>1, <2>1, <2>2
<1>6. CASE SendEndTime /\ UNCHANGED <<parentVars, serverVars>>
  <2>1. /\ child_to_parent' \in {child_to_parent, Append(child_to_parent, EndTime)}
        /\ child' \in {"recv", "zombie"} /\ UNCHANGED <<total_bytes, start_msg>>
        /\ UNCHANGED <<parentVars, sockVars, serverVars>>
    BY <1>6 DEF SendEndTime, Tell, EndTime
  <2>2. child_to_parent' \in Seq({"ready", "end_time"} \X Nat)
    BY <1>1, <1>2, <2>1
  <2>3. QED
    BY <1>1, <2>1, <2>2
<1>7. CASE Recv /\ UNCHANGED <<parentVars, serverVars>>
  <2>1. replies' \in 0 .. Cap /\ total_bytes' \in Nat
    BY <1>1, <1>7, LengthsAssumption DEF Recv
  <2>2. QED
    BY <1>1, <1>7, <2>1 DEF Recv
<1>8. CASE (RecvEof \/ RecvFails) /\ UNCHANGED <<parentVars, serverVars>>
  BY <1>1, <1>8 DEF RecvEof, RecvFails
<1>9. CASE ServerReads /\ UNCHANGED <<parentVars, childVars, pipeVars>>
  <2>1. requests' = requests - 1 /\ parsed' = parsed + 1 /\ requests > 0
    BY <1>9 DEF ServerReads
  <2>2. requests' \in 0 .. Cap
    BY <1>1, <2>1, LengthsAssumption
  <2>3. parsed + requests <= Sent /\ Sent \in Int /\ Sent <= NumRequests * RequestLen
    BY <1>1, SentBound, LengthsAssumption DEF UnitsInv
  <2>4. NumRequests * RequestLen \in Nat /\ requests \in Nat /\ parsed \in Nat
    BY <1>1, Frame, NumRequestsAssumption, LengthsAssumption
  <2>5. parsed' \in 0 .. NumRequests * RequestLen
    BY <2>1, <2>3, <2>4
  <2>6. QED
    BY <1>1, <1>9, <2>2, <2>5 DEF ServerReads
<1>10. CASE ServerReplies /\ UNCHANGED <<parentVars, childVars, pipeVars>>
  <2>1. replies' = replies + 1 /\ replied' = replied + 1 /\ Owed > 0 /\ replies < Cap
    BY <1>10 DEF ServerReplies
  <2>2. replies' \in 0 .. Cap
    BY <1>1, <2>1, LengthsAssumption
  <2>3. NumRequests * ReplyLen \in Nat /\ replied \in Nat
    BY <1>1, Frame, NumRequestsAssumption, LengthsAssumption
  <2>4. replied' \in 0 .. NumRequests * ReplyLen
    BY <1>1, <2>1, <2>3, OwedFacts DEF Owed
  <2>5. QED
    BY <1>1, <1>10, <2>2, <2>4 DEF ServerReplies
<1>11. CASE (ServerCloses /\ UNCHANGED <<parentVars, childVars, pipeVars>>) \/ ServerGivesUp
  BY <1>1, <1>11 DEF ServerCloses, ServerGivesUp
<1>12. CASE ForkFails \/ LogFails \/ ParentGivesUp \/ ParentKilled
  BY <1>1, <1>12 DEF ForkFails, LogFails, ParentGivesUp, ParentKilled
<1>13. CASE ChildGivesUp
  BY <1>1, <1>13 DEF ChildGivesUp
<1>14. QED
  BY <1>3, <1>4, <1>5, <1>6, <1>7, <1>8, <1>9, <1>10, <1>11, <1>12, <1>13
     DEF ChildStep, ServerStep

----------------------------------------------------------------------------
(* The invariant and the properties.                                        *)

\* The invariant holds at the start.
LEMMA ClientInit == Init => ClientInv
<1> SUFFICES ASSUME Init PROVE ClientInv
  OBVIOUS
<1>1. TypeOK
  <2>1. NumRequests * RequestLen \in Nat /\ NumRequests * ReplyLen \in Nat
    BY NumRequestsAssumption, LengthsAssumption
  <2>2. child_to_parent \in Seq({"ready", "end_time"} \X Nat)
    BY EmptySeq DEF Init
  <2>3. QED
    <3>1. 0 \in 0 .. NumRequests * RequestLen /\ 0 \in 0 .. NumRequests * ReplyLen
      BY <2>1
    <3>2. /\ total_sends \in 0 .. NumRequests /\ remaining \in 0 .. RequestLen
          /\ requests \in 0 .. Cap /\ replies \in 0 .. Cap
      BY NumRequestsAssumption, LengthsAssumption DEF Init
    <3>3. QED
      BY <2>2, <3>1, <3>2 DEF Init, TypeOK, NoTime
<1>2. HandshakeInv /\ PipeInv /\ CalmInv
  BY DEF Init, HandshakeInv, PipeInv, Measured, CalmInv, ParentGone, ChildGone
<1>3. Sent = 0 /\ Owed = 0
  <2>1. (NumRequests - NumRequests) * RequestLen - 0 = 0 /\ 0 \div RequestLen = 0
    BY NumRequestsAssumption, LengthsAssumption
  <2>2. ReplyLen * 0 - 0 = 0
    BY LengthsAssumption
  <2>3. QED
    BY <2>1, <2>2 DEF Init, Sent, Owed
<1>4. UnitsInv
  BY <1>3 DEF Init, UnitsInv
<1>5. QED
  BY <1>1, <1>2, <1>4 DEF ClientInv

\* Every step keeps the invariant.
LEMMA ClientStep == ClientInv /\ [Next]_vars => ClientInv'
<1> SUFFICES ASSUME ClientInv, [Next]_vars PROVE ClientInv'
  OBVIOUS
<1>1. CASE ParentStep /\ UNCHANGED disturbed
  BY <1>1, HandshakeParent, PipeParent, UnitsParent, CalmParent, TypeParent DEF ClientInv
<1>2. CASE (ChildStep \/ ServerStep) /\ UNCHANGED disturbed
  <2>1. disturbed' \in BOOLEAN
    BY <1>2 DEF ClientInv, TypeOK
  <2>2. QED
    BY <1>2, <2>1, HandshakeOthers, PipeOthers, UnitsOthers, CalmOthers, TypeOthers DEF ClientInv
<1>3. CASE (ForkFails \/ LogFails \/ ParentGivesUp \/ ParentKilled \/ ChildGivesUp \/ ServerGivesUp)
             /\ disturbed' = TRUE
  <2>1. CalmInv'
    BY <1>3 DEF CalmInv
  <2>2. QED
    BY <1>3, <2>1, HandshakeOthers, PipeOthers, UnitsOthers, TypeOthers DEF ClientInv
<1>4. CASE UNCHANGED vars
  BY <1>4 DEF ClientInv, TypeOK, HandshakeInv, PipeInv, Measured, UnitsInv, CalmInv, EndTime, Sent, Owed,
              ParentGone, ChildGone, vars, parentVars, childVars, pipeVars, sockVars, serverVars
<1>5. QED
  BY <1>1, <1>2, <1>3, <1>4 DEF Next, Undisturbed, Fault

\* The handshake, the pipes, the units on their way and the order in which a calm run
\* ends, in every reachable state.
THEOREM ClientInvariant == Spec => []ClientInv
BY ClientInit, ClientStep, PTL DEF Spec

\* Every variable of the client and of its connection keeps its type: no counter of
\* units leaves its bounds.
THEOREM TypeCorrect == Spec => []TypeOK
<1>1. ClientInv => TypeOK
  BY DEF ClientInv
<1>2. QED
  BY <1>1, ClientInvariant, PTL

\* The two pipes make sure that no request is on its way before the receiver reads.
THEOREM ReceiverFirstHolds == Spec => []ReceiverFirst
<1>1. ClientInv => ReceiverFirst
  BY DEF ClientInv, UnitsInv, ReceiverFirst
<1>2. QED
  BY <1>1, ClientInvariant, PTL

\* A logged time leaves no child and nothing unread behind, whatever fails.
THEOREM CleanEndHolds == Spec => []CleanEnd
<1>1. ClientInv => CleanEnd
  BY DEF ClientInv, HandshakeInv, Measured, CleanEnd
<1>2. QED
  BY <1>1, ClientInvariant, PTL

\* Exit status 0 without a time is only returned when fork has failed, or when all was
\* measured and only the output file could not be written.
THEOREM OkWithoutTimeHolds == Spec => []OkWithoutTime
<1>1. ClientInv => OkWithoutTime
  BY DEF ClientInv, HandshakeInv, PipeInv, Measured, OkWithoutTime
<1>2. QED
  BY <1>1, ClientInvariant, PTL

\* When nothing fails the logged time runs to the last unit of the last reply: all
\* requests were read, all that was owed for them was written, and the child had
\* read all of it before it took the time.
THEOREM TimesAllRepliesHolds == Spec => []TimesAllReplies
<1>1. ClientInv => TimesAllReplies
  <2> SUFFICES ASSUME ClientInv, logged, ~disturbed PROVE end_time = NumRequests * ReplyLen
    BY DEF TimesAllReplies
  <2>1. child = "reaped" /\ end_time = total_bytes
    BY DEF ClientInv, HandshakeInv, PipeInv, Measured
  <2>2. conn = "closed" /\ fin /\ requests = 0 /\ replies = 0 /\ Owed = 0
    BY <2>1 DEF ClientInv, CalmInv
  <2>3. total_sends = 0 /\ remaining = 0 /\ parsed + requests = Sent /\ total_bytes + replies = replied
    BY <2>2 DEF ClientInv, UnitsInv
  <2>4. Sent = NumRequests * RequestLen /\ NumRequests * RequestLen \in Nat
    BY <2>3, NumRequestsAssumption, LengthsAssumption DEF Sent
  <2>5. TypeOK
    BY DEF ClientInv
  <2>6. parsed = NumRequests * RequestLen /\ total_bytes = replied /\ replied \in Nat
    BY <2>2, <2>3, <2>4, <2>5, Frame
  <2>7. ReplyLen * (parsed \div RequestLen) = NumRequests * ReplyLen
    BY <2>5, <2>6, OwedFacts DEF TypeOK
  <2>8. NumRequests * ReplyLen - replied = 0 /\ NumRequests * ReplyLen \in Nat
    BY <2>2, <2>7, NumRequestsAssumption, LengthsAssumption DEF Owed
  <2>9. QED
    BY <2>1, <2>6, <2>8
<1>2. QED
  BY <1>1, ClientInvariant, PTL
============================================================================
