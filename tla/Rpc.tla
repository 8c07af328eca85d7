--------------------------------- MODULE Rpc ---------------------------------
(***************************************************************************)
(* A connection of the RPC protocol (network/rpc.cpp, network/rpc.h): the   *)
(* threads of one process share one RPCClientThread; each sends a call and, *)
(* when the procedure returns a value, waits for the top of a stack on      *)
(* which the client thread puts the answers it reads.  Nothing in an answer *)
(* says which call it answers.  On the server one thread per connection     *)
(* executes the calls in the order they come in.                            *)
(*                                                                         *)
(* Calls are known by their msgid.  The two directions of the connection    *)
(* are channels of frames in the sense of FrameChannel: in order and whole, *)
(* until the end of the connection, when frames still on their way or in    *)
(* the buffer of the reader are dropped.                                    *)
(***************************************************************************)
EXTENDS Naturals, Sequences, FiniteSets

CONSTANTS
  Threads,     (* the threads of the client process that call               *)
  MaxCalls,    (* bound: calls made                                         *)
  MaxStack     (* bound: answers the client thread repeats once it is alone *)

ASSUME RpcAssumption == IsFiniteSet(Threads) /\ {MaxCalls, MaxStack} \subseteq Nat

VARIABLES
  calls,       (* _client_msg_id: the number of calls made                  *)
  caller,      (* thread -> its call of a value, if it waits for one        *)
  requests,    (* calls on their way to the server                          *)
  responses,   (* RPCReturnValue frames on their way back                   *)
  stack,       (* _call_return_stack                                        *)
  last,        (* fbuffer: the frame the client thread read last            *)
  reader,      (* the client thread: "fetch" | "alone" | "done"             *)
  running,     (* _rpc_thread_running of the client                         *)
  serving,     (* the server thread: the call it executes, or Idle          *)
  server,      (* the server thread: "fetch" | "run" | "left" | "done"      *)
  stopping,    (* ~RPCServerThread has begun                                *)
  result       (* thread -> the call it made last, the answer it got, and   *)
               (* whether another call was outstanding in between           *)

client == <<calls, caller, result>>
wire == <<requests, responses>>
reading == <<stack, last, reader>>
vars == <<client, wire, reading, running, serving, server, stopping>>

Kinds == {"value", "void"}
Calls == [call : 1 .. MaxCalls, kind : Kinds]
Idle == [call |-> 0, kind |-> "void"]

NotCalling == [call |-> 0, mixed |-> FALSE]
Waiting == {t \in Threads : caller[t].call # 0}

------------------------------------------------------------------------------
Init ==
  /\ calls = 0
  /\ caller = [t \in Threads |-> NotCalling]
  /\ requests = <<>>
  /\ responses = <<>>
  /\ stack = <<>>
  /\ last = Idle
  /\ reader = "fetch"
  /\ running = TRUE
  /\ serving = Idle
  /\ server = "fetch"
  /\ stopping = FALSE
  /\ result = [t \in Threads |-> [call |-> 0, answer |-> 0, mixed |-> FALSE]]

(* call, callRaw: the thread sends; for a value it goes on to wait.  What   *)
(* is sent to a server that is gone is lost.                                *)
Begun(t, n) ==
  [u \in Threads |->
     IF u = t THEN [call |-> n, mixed |-> Waiting # {}]
     ELSE IF u \in Waiting THEN [caller[u] EXCEPT !.mixed = TRUE] ELSE caller[u]]

Call(t, kind) ==
  /\ running
  /\ caller[t] = NotCalling
  /\ calls < MaxCalls
  /\ calls' = calls + 1
  /\ requests' = IF server = "done" THEN requests
                 ELSE Append(requests, [call |-> calls + 1, kind |-> kind])
  /\ caller' = IF kind = "value" THEN Begun(t, calls + 1) ELSE caller
  /\ UNCHANGED <<responses, reading, running, serving, server, stopping, result>>

(* SocketSendBytes fails: the call returns T() without waiting.             *)
CallFails(t) ==
  /\ running
  /\ server = "done"
  /\ caller[t] = NotCalling
  /\ calls < MaxCalls
  /\ calls' = calls + 1
  /\ UNCHANGED <<caller, wire, reading, running, serving, server, stopping, result>>

(* Fault: the answer is left on the stack (Balanced).                       *)
PopKeeps(t) ==
  /\ t \in Waiting
  /\ stack # <<>>
  /\ result' = [result EXCEPT ![t] =
       [call |-> caller[t].call, answer |-> stack[Len(stack)], mixed |-> caller[t].mixed]]
  /\ caller' = [caller EXCEPT ![t] = NotCalling]
  /\ UNCHANGED <<calls, wire, reading, running, serving, server, stopping>>

(* _call_return_stack.pop.                                                  *)
Pop(t) ==
  /\ t \in Waiting
  /\ stack # <<>>
  /\ result' = [result EXCEPT ![t] =
       [call |-> caller[t].call, answer |-> stack[Len(stack)], mixed |-> caller[t].mixed]]
  /\ caller' = [caller EXCEPT ![t] = NotCalling]
  /\ stack' = SubSeq(stack, 1, Len(stack) - 1)
  /\ UNCHANGED <<calls, wire, last, reader, running, serving, server, stopping>>

------------------------------------------------------------------------------
(* clientThread: an answer with a payload goes on the stack.                *)
(* Fault: the empty answers of void procedures go there too (OwnAnswer).    *)
PushedAll(answer) == IF answer = Idle THEN stack ELSE Append(stack, answer.call)
Pushed(answer) == IF answer.kind = "value" THEN Append(stack, answer.call) ELSE stack

ReaderFetches ==
  /\ reader = "fetch"
  /\ responses # <<>>
  /\ last' = Head(responses)
  /\ responses' = Tail(responses)
  /\ stack' = Pushed(last')
  /\ UNCHANGED <<client, requests, reader, running, serving, server, stopping>>

(* The stream is unblocked: the server's end is gone, or the destructor     *)
(* asked for it.  From here on fetch returns 0.                             *)
ReaderAlone ==
  /\ reader = "fetch"
  /\ server = "done" \/ ~ running
  /\ reader' = "alone"
  /\ responses' = <<>>
  /\ UNCHANGED <<client, requests, stack, last, running, serving, server, stopping>>

(* A fetch that returned 0 does not end the loop while the client runs: the *)
(* frame in the buffer is taken for the answer it was.                      *)
ReaderRepeats ==
  /\ reader = "alone"
  /\ running
  /\ Len(stack) < MaxStack
  /\ stack' = Pushed(last)
  /\ UNCHANGED <<client, wire, last, reader, running, serving, server, stopping>>

ReaderEnds ==
  /\ reader = "alone"
  /\ ~ running
  /\ reader' = "done"
  /\ UNCHANGED <<client, wire, stack, last, running, serving, server, stopping>>

(* ~RPCClientThread, run once no thread is in a call.                       *)
Destroy ==
  /\ running
  /\ Waiting = {}
  /\ running' = FALSE
  /\ UNCHANGED <<client, wire, reading, serving, server, stopping>>

------------------------------------------------------------------------------
(* serverThread.                                                            *)
ServerFetches ==
  /\ server = "fetch"
  /\ requests # <<>>
  /\ serving' = Head(requests)
  /\ requests' = Tail(requests)
  /\ server' = "run"
  /\ UNCHANGED <<client, responses, reading, running, stopping>>

(* Fault: no answer to a void procedure's empty result, nor to any other    *)
(* call while the client has not read the last answer (CallsReturn).        *)
AnsweredIfRead == IF responses = <<>> THEN Append(responses, serving) ELSE responses
Answered == Append(responses, serving)

(* The procedure is executed and answered; the loop ends there when the     *)
(* server stops, and the thread waits for its receive thread.               *)
ServerRuns ==
  /\ server = "run"
  /\ serving' = Idle
  /\ responses' = IF running THEN Answered ELSE responses
  /\ server' = IF stopping THEN "left" ELSE "fetch"
  /\ UNCHANGED <<client, requests, reading, running, stopping>>

(* Fault: the loop goes on unless the server stops (ServerThreadEnds).      *)
ServerLeavesIfStopping ==
  /\ server \in {"fetch", "left"}
  /\ ~ running
  /\ stopping
  /\ server' = "done"
  /\ requests' = <<>>
  /\ UNCHANGED <<client, responses, reading, running, serving, stopping>>

(* The client's end is closed: fetch returns 0, and the receive thread ends. *)
ServerLeaves ==
  /\ server \in {"fetch", "left"}
  /\ ~ running
  /\ server' = "done"
  /\ requests' = <<>>
  /\ UNCHANGED <<client, responses, reading, running, serving, stopping>>

(* ~RPCServerThread: the flag, and then it joins.  Nothing unblocks the     *)
(* stream, except on Windows: the thread stays until its client leaves.     *)
ServerStops ==
  /\ ~ stopping
  /\ stopping' = TRUE
  /\ UNCHANGED <<client, wire, reading, running, serving, server>>

(* The server process is gone.                                              *)
ServerDies ==
  /\ server # "done"
  /\ server' = "done"
  /\ serving' = Idle
  /\ requests' = <<>>
  /\ UNCHANGED <<client, responses, reading, running, stopping>>

------------------------------------------------------------------------------
Reader == ReaderFetches \/ ReaderAlone \/ ReaderRepeats \/ ReaderEnds
Server == ServerFetches \/ ServerRuns \/ ServerLeaves

Next ==
  \/ \E t \in Threads, kind \in Kinds : Call(t, kind)
  \/ \E t \in Threads : CallFails(t) \/ Pop(t)
  \/ Reader \/ Destroy
  \/ Server \/ ServerStops \/ ServerDies

(* Threads that can go on do; whether there are calls, and whether an end   *)
(* leaves, is left open.                                                    *)
Fairness ==
  /\ \A t \in Threads : WF_vars(Pop(t))
  /\ WF_vars(Reader)
  /\ WF_vars(Server)

Spec == Init /\ [][Next]_vars /\ Fairness

------------------------------------------------------------------------------
TypeOK ==
  /\ calls \in 0 .. MaxCalls
  /\ caller \in [Threads -> [call : 0 .. MaxCalls, mixed : BOOLEAN]]
  /\ requests \in Seq(Calls) /\ responses \in Seq(Calls)
  /\ stack \in Seq(1 .. MaxCalls)
  /\ last \in Calls \cup {Idle} /\ serving \in Calls \cup {Idle}
  /\ reader \in {"fetch", "alone", "done"} /\ server \in {"fetch", "run", "left", "done"}
  /\ running \in BOOLEAN /\ stopping \in BOOLEAN
  /\ result \in [Threads -> [call : 0 .. MaxCalls, answer : 0 .. MaxCalls, mixed : BOOLEAN]]

Values(s) == Cardinality({i \in DOMAIN s : s[i].kind = "value"})

(* As long as the connection stands there is exactly one answer, made or to *)
(* be made, for each thread that waits: none is lost, left over or counted  *)
(* twice, whatever void calls come in between.                              *)
Balanced ==
  server # "done" /\ reader = "fetch" =>
    Cardinality(Waiting) =
      Values(requests) + Values(<<serving>>) + Values(responses) + Len(stack)

(* A call of a value returns the answer to it, unless another call of the   *)
(* process was outstanding at the same time or the server is gone: threads  *)
(* that call at the same time get each other's answers.                     *)
OwnAnswer ==
  server # "done" =>
    \A t \in Threads : result[t].answer = result[t].call \/ result[t].mixed

(* A thread that waits for a value gets one, unless the server is gone or   *)
(* stopping: a server that stops no longer serves the calls that still come *)
(* in, and waits for their callers to leave while they wait for an answer.  *)
CallsReturn ==
  \A t \in Threads : t \in Waiting ~> t \notin Waiting \/ server = "done" \/ stopping

(* The thread of a connection ends once the client has left it.             *)
ServerThreadEnds == ~ running ~> server = "done"

(* The server thread has a call in its hands only while it executes it; and *)
(* nobody waits in a client that is being destroyed, which is the only one   *)
(* whose client thread gives up a server that is there.                      *)
ServingKnown == IF server = "run" THEN serving \in Calls ELSE serving = Idle
LeftAlone ==
  /\ ~ running => Waiting = {}
  /\ reader # "fetch" => server = "done" \/ ~ running

(* A thread no other call was mixed with waits alone, and every value on its *)
(* way is the answer to its call.                                            *)
ValuesOf(s, n) == \A i \in DOMAIN s : s[i].kind = "value" => s[i].call = n
OnlyOne ==
  server # "done" =>
    \A t \in Waiting :
      ~ caller[t].mixed =>
        /\ Waiting = {t}
        /\ ValuesOf(requests, caller[t].call) /\ ValuesOf(<<serving>>, caller[t].call)
        /\ ValuesOf(responses, caller[t].call)
        /\ \A i \in DOMAIN stack : stack[i] = caller[t].call

(* One answer for each call that waits, whatever the threads do between      *)
(* (RPCClientThread::call, RPCServerThread::serverThread).                  *)
CallsSound == TypeOK /\ Balanced /\ ServingKnown /\ LeftAlone /\ OnlyOne
=============================================================================
