---------------------------- MODULE LoginVerify ----------------------------
(***************************************************************************)
(* CLoginVerify: the client library.  The program calls it from one thread *)
(* ("caller"); KeepAlive starts threads that poll the server on the same   *)
(* socket, to learn whether the user has logged in elsewhere.  No lock     *)
(* guards clientSocket_ and clientState_.                                  *)
(*                                                                         *)
(* Windows and the server are external: a connection keeps the order of    *)
(* its messages, but not their boundaries.  The server takes what has      *)
(* arrived for one request, and the client takes what has arrived for one  *)
(* reply.  Left out are the arguments that InitEnv and the calls refuse    *)
(* before they do anything, SetDeadLine and CreateKeepThread, which return *)
(* at once, and a socket number that Windows gives out again.              *)
(***************************************************************************)
EXTENDS Naturals, Sequences, FiniteSets

CONSTANTS
  Sockets,   \* the sockets InitEnv can create: the bound on its calls
  Keepers,   \* the threads of KeepAlive that may run at the same time
  MaxCalls,  \* bound on the requests of the caller
  NULL       \* no socket; no request

Caller == "caller"
Threads == {Caller} \cup Keepers

ASSUME LoginVerifyAssumption ==
  /\ IsFiniteSet(Keepers)
  /\ Caller \notin Keepers
  /\ MaxCalls \in Nat
  /\ NULL \notin Sockets

VARIABLES
  clientState_,  \* CLIENT_INITIAL, CLIENT_CONNECTED or CLIENT_RELOGIN
  clientSocket_,
  pc,            \* of each thread: where it is
  on,            \* of each thread: the socket it receives from
  limited,       \* sockets with a receive timeout, SO_RCVTIMEO
  call,          \* the caller's last request
  result,        \* what it returned, see Results
  loggedIn,      \* has Login returned an answer since InitEnv?
  link,          \* of each socket: see Links
  requests,      \* of each socket: what is on the way to the server,
  replies,       \*   and what is on the way back
  session,       \* sockets the server has a login for
  kicked,        \* those whose user has since logged in elsewhere
  watched,       \* history: has KeepAlive succeeded since InitEnv?
  mixed          \* history: see Mixed

network == <<link, requests, replies, session, kicked>>
vars == <<clientState_, clientSocket_, pc, on, limited, call, result, loggedIn,
          network, watched, mixed>>

(* "failed" is a socket that could not be created or is not connected; the *)
(* server ends a connection in good order ("ended") or not ("reset"); the  *)
(* library has closed it ("closed").                                       *)
Links == {"unused", "up", "failed", "ended", "reset", "closed"}

(* Register, the getters, BeyondDeadLine and ResetPassWord are "query".    *)
Request(by, n) == [by |-> by, n |-> n]
NoRequest == Request("poll", 0)

(* A reply, what it answers, and whether it starts with the number 1.      *)
Reply(r, b) == [to |-> r, one |-> b]

(* clientSocket_ is not initialised; nothing reads it before InitEnv.      *)
Init ==
  /\ clientState_ = "initial"
  /\ clientSocket_ = NULL
  /\ pc = [t \in Threads |-> IF t = Caller THEN "ready" ELSE "ended"]
  /\ on = [t \in Threads |-> NULL]
  /\ limited = {}
  /\ call = NoRequest
  /\ result = "none"
  /\ loggedIn = FALSE
  /\ link = [s \in Sockets |-> "unused"]
  /\ requests = [s \in Sockets |-> <<>>]
  /\ replies = [s \in Sockets |-> <<>>]
  /\ session = {}
  /\ kicked = {}
  /\ watched = FALSE
  /\ mixed = {}

goto(t, there) == pc' = [pc EXCEPT ![t] = there]

(* The receive of t is over.                                               *)
leave(t, there) == goto(t, there) /\ on' = [on EXCEPT ![t] = NULL]

Current == {clientSocket_} \ {NULL}
Alive(k) == pc[k] # "ended"

-----------------------------------------------------------------------------
(* The server and the network                                              *)
DropFirst(q, n) == SubSeq(q, n + 1, Len(q))

(* One receive of the server: a request gets its answer, to a poll the     *)
(* flag m_bReLogin of the connection; several at once are no JSON, and get *)
(* one error object.                                                       *)
Serve(s) ==
  /\ link[s] = "up"
  /\ \E n \in 1 .. Len(requests[s]) :
       LET r == Head(requests[s])
       IN  /\ requests' = [requests EXCEPT ![s] = DropFirst(@, n)]
           /\ \E b \in BOOLEAN :
                /\ n = 1 /\ r.by = "poll" => b = (s \in kicked)
                /\ n > 1 => ~b
                /\ replies' = [replies EXCEPT ![s] =
                                 Append(@, Reply(IF n = 1 THEN r ELSE NULL, b))]
           /\ session' = IF n = 1 /\ r.by = "login" THEN session \cup {s} ELSE session
  /\ UNCHANGED <<clientState_, clientSocket_, pc, on, limited, call, result, loggedIn,
                 link, kicked, watched, mixed>>

Kick(s) ==
  /\ s \in session \ kicked
  /\ link[s] = "up"
  /\ kicked' = kicked \cup {s}
  /\ UNCHANGED <<clientState_, clientSocket_, pc, on, limited, call, result, loggedIn,
                 link, requests, replies, session, watched, mixed>>

ServerEnds(s) ==
  /\ link[s] = "up"
  /\ \E how \in {"ended", "reset"} : link' = [link EXCEPT ![s] = how]
  /\ requests' = [requests EXCEPT ![s] = <<>>]
  /\ UNCHANGED <<clientState_, clientSocket_, pc, on, limited, call, result, loggedIn,
                 replies, session, kicked, watched, mixed>>

Network == \E s \in Sockets : Serve(s) \/ Kick(s) \/ ServerEnds(s)

(* send(s, r): what is sent to a server that has ended the connection is   *)
(* lost, and resets it.                                                    *)
CanSend(s) == s # NULL /\ link[s] \in {"up", "ended"}

Send(s, r) ==
  /\ CanSend(s)
  /\ IF link[s] = "up"
     THEN requests' = [requests EXCEPT ![s] = Append(@, r)] /\ UNCHANGED link
     ELSE link' = [link EXCEPT ![s] = "reset"] /\ UNCHANGED requests
  /\ UNCHANGED <<replies, session, kicked>>

(* recv(s): it returns what has arrived, nothing when the server has ended *)
(* the connection, or an error; the error of a receive with a timeout may  *)
(* come at any time.  Only the first reply in the buffer is read.          *)
Arrives(s) ==
  /\ s # NULL
  /\ link[s] \in {"up", "ended", "reset"}
  /\ \E n \in 1 .. Len(replies[s]) : replies' = [replies EXCEPT ![s] = DropFirst(@, n)]
  /\ UNCHANGED <<link, requests, session, kicked>>

Ended(s) == s # NULL /\ link[s] = "ended" /\ replies[s] = <<>>
Broken(s) == s = NULL \/ (s # NULL /\ link[s] \in {"failed", "reset", "closed"})
TimedOut(s) == s \in limited /\ link[s] \in {"up", "ended"} /\ replies[s] = <<>>

(* closesocket: what is on the way is dropped.                             *)
Close(S) ==
  /\ link' = [s \in Sockets |-> IF s \in S THEN "closed" ELSE link[s]]
  /\ requests' = [s \in Sockets |-> IF s \in S THEN <<>> ELSE requests[s]]
  /\ replies' = [s \in Sockets |-> IF s \in S THEN <<>> ELSE replies[s]]
  /\ UNCHANGED <<session, kicked>>

-----------------------------------------------------------------------------
(* The caller                                                              *)
Ready == pc[Caller] = "ready"
Crashed == pc[Caller] = "crashed"

(* InitEnv up to socket: a failed socket, too, is assigned.                *)
InitEnv ==
  /\ Ready
  /\ \E s \in Sockets :
       /\ link[s] = "unused"
       /\ clientSocket_' = s
       /\ link' = [link EXCEPT ![s] = "failed"]
  /\ watched' = FALSE
  /\ loggedIn' = FALSE
  /\ goto(Caller, "connect")
  /\ UNCHANGED <<clientState_, on, limited, call, result, requests, replies, session, kicked, mixed>>

(* connect reads clientSocket_ again: a thread of KeepAlive that was still *)
(* running may have closed the new socket.                                 *)
Connect ==
  /\ pc[Caller] = "connect"
  /\ \/ /\ clientSocket_ # NULL
        /\ link[clientSocket_] = "failed"
        /\ link' = [link EXCEPT ![clientSocket_] = "up"]
        /\ clientState_' = "connected"
     \/ UNCHANGED <<link, clientState_>>
  /\ goto(Caller, "ready")
  /\ UNCHANGED <<clientSocket_, on, limited, call, result, loggedIn, requests, replies,
                 session, kicked, watched, mixed>>

(* A request is sent.  When that fails, Login and the queries that return  *)
(* a number return one; those that return a string make it from NULL.      *)
SendCall(by) ==
  /\ Ready
  /\ \E s \in Sockets : link[s] # "unused"
  /\ call.n < MaxCalls
  /\ call' = Request(by, call.n + 1)
  /\ \/ Send(clientSocket_, call') /\ goto(Caller, "receive") /\ result' = "none"
     \/ /\ ~CanSend(clientSocket_)
        /\ result' = "error"
        /\ goto(Caller, "ready") \/ (by = "query" /\ goto(Caller, "crashed"))
        /\ UNCHANGED network
  /\ mixed' = IF \E k \in Keepers : Alive(k) THEN mixed \cup Current
              ELSE mixed
  /\ UNCHANGED <<clientState_, clientSocket_, on, loggedIn, watched>>

(* Mutants: a timeout is set on no socket; Login has no timeout. *)
LoginUnchecked == SendCall("login") /\ limited' = limited \cup {clientSocket_}
LoginForEver == SendCall("login") /\ UNCHANGED limited

Login == SendCall("login") /\ limited' = limited \cup Current
Query == SendCall("query") /\ UNCHANGED limited

(* Mutant: only Login waits for its reply. *)
ReceiveLogin ==
  /\ pc[Caller] = "receive"
  /\ IF call.by = "login"
     THEN /\ on' = [on EXCEPT ![Caller] = clientSocket_]
          /\ goto(Caller, "recv")
     ELSE leave(Caller, "ready")
  /\ UNCHANGED <<clientState_, clientSocket_, limited, call, result, loggedIn, network,
                 watched, mixed>>

(* The receive of a call begins: clientSocket_ is read again.              *)
Receive ==
  /\ pc[Caller] = "receive"
  /\ on' = [on EXCEPT ![Caller] = clientSocket_]
  /\ goto(Caller, "recv")
  /\ UNCHANGED <<clientState_, clientSocket_, limited, call, result, loggedIn, network,
                 watched, mixed>>

(* It ends.  A call whose answer may still come leaves the connection      *)
(* mixed.                                                                  *)
ReturnReply ==
  /\ pc[Caller] = "recv"
  /\ Arrives(on[Caller])
  /\ result' = IF Head(replies[on[Caller]]).to = call THEN "own" ELSE "other"
  /\ loggedIn' = (loggedIn \/ call.by = "login")
  /\ leave(Caller, "ready")
  /\ UNCHANGED <<clientState_, clientSocket_, limited, call, watched, mixed>>

ReturnNothing ==
  /\ pc[Caller] = "recv"
  /\ LET s == on[Caller]
     IN  \/ Ended(s) /\ result' = "empty" /\ UNCHANGED mixed
         \/ Broken(s) /\ result' = "error" /\ UNCHANGED mixed
         \/ TimedOut(s) /\ result' = "error" /\ mixed' = mixed \cup {s}
  /\ leave(Caller, "ready")
  /\ UNCHANGED <<clientState_, clientSocket_, limited, call, loggedIn, network, watched>>

(* KeepAlive starts a thread.  When it cannot, it shuts Winsock down, or   *)
(* takes back one of several calls of InitEnv, and tells nobody.           *)
KeepAlive ==
  /\ Ready
  /\ loggedIn
  /\ \/ /\ \E k \in Keepers : pc[k] = "ended" /\ goto(k, "sleep")
        /\ watched' = TRUE
        /\ UNCHANGED network
     \/ /\ \E S \in {{}, { s \in Sockets : link[s] # "unused" }} : Close(S)
        /\ UNCHANGED <<pc, watched>>
  /\ UNCHANGED <<clientState_, clientSocket_, on, limited, call, result, loggedIn, mixed>>

(* The socket stays in clientSocket_.                                      *)
cleanEnv ==
  /\ Ready
  /\ clientSocket_ # NULL
  /\ Close(Current)
  /\ UNCHANGED <<clientState_, clientSocket_, pc, on, limited, call, result, loggedIn,
                 watched, mixed>>

CallerNext ==
  \/ InitEnv
  \/ Connect
  \/ Query
  \/ Login
  \/ Receive
  \/ ReturnReply
  \/ ReturnNothing
  \/ KeepAlive
  \/ cleanEnv

-----------------------------------------------------------------------------
(* CreateReLoginThread                                                     *)
(* After Sleep(5000): the loop ends without a socket or in another state.  *)
Check(k) ==
  /\ pc[k] = "sleep"
  /\ goto(k, IF clientSocket_ = NULL \/ clientState_ # "connected" THEN "ended" ELSE "send")
  /\ UNCHANGED <<clientState_, clientSocket_, on, limited, call, result, loggedIn, network,
                 watched, mixed>>

Poll(k) ==
  /\ pc[k] = "send"
  /\ \/ Send(clientSocket_, NoRequest) /\ goto(k, "receive")
     \/ ~CanSend(clientSocket_) /\ goto(k, "lost") /\ UNCHANGED network
  /\ UNCHANGED <<clientState_, clientSocket_, on, limited, call, result, loggedIn, watched, mixed>>

(* The timeout of one second is for the socket, so for the caller as well. *)
ReceivePoll(k) ==
  /\ pc[k] = "receive"
  /\ on' = [on EXCEPT ![k] = clientSocket_]
  /\ limited' = limited \cup Current
  /\ goto(k, "recv")
  /\ UNCHANGED <<clientState_, clientSocket_, call, result, loggedIn, network, watched, mixed>>

(* Mutants: no bytes are read as a 1; after an error the thread receives   *)
(* again; the 1 is not read.                                               *)
PollReplyEmptyIsOne(k) ==
  /\ pc[k] = "recv"
  /\ \/ /\ Arrives(on[k])
        /\ leave(k, IF Head(replies[on[k]]).one THEN "told" ELSE "sleep")
     \/ Ended(on[k]) /\ leave(k, "told") /\ UNCHANGED network
     \/ (Broken(on[k]) \/ TimedOut(on[k])) /\ leave(k, "lost") /\ UNCHANGED network
  /\ UNCHANGED <<clientState_, clientSocket_, limited, call, result, loggedIn, watched, mixed>>

PollReplyIgnoresError(k) ==
  /\ pc[k] = "recv"
  /\ \/ /\ Arrives(on[k])
        /\ leave(k, IF Head(replies[on[k]]).one THEN "told" ELSE "sleep")
     \/ /\ Ended(on[k]) \/ Broken(on[k]) \/ TimedOut(on[k])
        /\ UNCHANGED <<pc, on, network>>
  /\ UNCHANGED <<clientState_, clientSocket_, limited, call, result, loggedIn, watched, mixed>>

PollReplyUnread(k) ==
  /\ pc[k] = "recv"
  /\ \/ Arrives(on[k]) /\ leave(k, "sleep")
     \/ Ended(on[k]) /\ leave(k, "sleep") /\ UNCHANGED network
     \/ (Broken(on[k]) \/ TimedOut(on[k])) /\ leave(k, "lost") /\ UNCHANGED network
  /\ UNCHANGED <<clientState_, clientSocket_, limited, call, result, loggedIn, watched, mixed>>

PollReply(k) ==
  /\ pc[k] = "recv"
  /\ \/ /\ Arrives(on[k])
        /\ leave(k, IF Head(replies[on[k]]).one THEN "told" ELSE "sleep")
     \/ Ended(on[k]) /\ leave(k, "sleep") /\ UNCHANGED network
     \/ (Broken(on[k]) \/ TimedOut(on[k])) /\ leave(k, "lost") /\ UNCHANGED network
  /\ UNCHANGED <<clientState_, clientSocket_, limited, call, result, loggedIn, watched, mixed>>

(* The thread ends in three steps: it writes the state, closes the socket  *)
(* that clientSocket_ names by then, and clears clientSocket_.  A lost     *)
(* connection is CLIENT_CONNECTED: nothing writes CLIENT_DISCONNECT.       *)
Publish(k) ==
  /\ \/ pc[k] = "lost" /\ clientState_' = "connected"
     \/ pc[k] = "told" /\ clientState_' = "relogin"
  /\ goto(k, "close")
  /\ UNCHANGED <<clientSocket_, on, limited, call, result, loggedIn, network, watched, mixed>>

CloseSocket(k) ==
  /\ pc[k] = "close"
  /\ Close(Current)
  /\ goto(k, "clear")
  /\ UNCHANGED <<clientState_, clientSocket_, on, limited, call, result, loggedIn, watched, mixed>>

(* Mutant: clientSocket_ is left as it is. *)
SetSocketNot(k) ==
  /\ pc[k] = "clear"
  /\ goto(k, "ended")
  /\ UNCHANGED <<clientState_, clientSocket_, on, limited, call, result, loggedIn, network,
                 watched, mixed>>

SetSocket(k) ==
  /\ pc[k] = "clear"
  /\ clientSocket_' = NULL
  /\ goto(k, "ended")
  /\ UNCHANGED <<clientState_, on, limited, call, result, loggedIn, network, watched, mixed>>

ReLogin(k) ==
  \/ Check(k)
  \/ Poll(k)
  \/ ReceivePoll(k)
  \/ PollReply(k)
  \/ Publish(k)
  \/ CloseSocket(k)
  \/ SetSocket(k)

-----------------------------------------------------------------------------
(* A crash ends the program, with all its threads.                         *)
Client == ~Crashed /\ (CallerNext \/ \E k \in Keepers : ReLogin(k))

Next == Client \/ Network

Spec == Init /\ [][Next]_vars

(* A thread that is not waiting goes on, a receive with a timeout ends.    *)
(* The server owes nothing, and the caller only what a call has begun.     *)
Fairness ==
  /\ WF_vars(~Crashed /\ (Connect \/ Receive \/ ReturnReply \/ ReturnNothing))
  /\ \A k \in Keepers : WF_vars(~Crashed /\ ReLogin(k))

FairSpec == Spec /\ Fairness

-----------------------------------------------------------------------------
PC == [Caller |-> {"ready", "connect", "receive", "recv", "crashed"},
       Keepers |-> {"sleep", "send", "receive", "recv", "lost", "told", "close", "clear",
                    "ended"}]

Results == {"none", "own", "other", "empty", "error"}

Calls == [by : {"login", "query", "poll"}, n : 0 .. MaxCalls]

(* Every variable keeps its type.                                          *)
TypeOK ==
  /\ clientState_ \in {"initial", "connected", "relogin"}
  /\ clientSocket_ \in Sockets \cup {NULL}
  /\ pc \in [Threads -> PC.Caller \cup PC.Keepers]
  /\ pc[Caller] \in PC.Caller
  /\ \A k \in Keepers : pc[k] \in PC.Keepers
  /\ on \in [Threads -> Sockets \cup {NULL}]
  /\ limited \subseteq Sockets
  /\ call \in Calls
  /\ result \in Results
  /\ loggedIn \in BOOLEAN
  /\ link \in [Sockets -> Links]
  /\ requests \in [Sockets -> Seq(Calls)]
  /\ replies \in [Sockets -> Seq([to : Calls \cup {NULL}, one : BOOLEAN])]
  /\ session \subseteq Sockets
  /\ kicked \subseteq session
  /\ watched \in BOOLEAN
  /\ mixed \subseteq Sockets

(* CLIENT_RELOGIN means "logged in again": another client has logged in    *)
(* as the user of this one.                                                *)
ReloginIsTrue == clientState_ = "relogin" => kicked # {}

(* A connection is mixed when the caller has called on it while a thread   *)
(* of KeepAlive was running, or has given up a call whose answer may still *)
(* come.  Only there a call returns the answer to something else.          *)
OtherResultOnlyIfMixed ==
  [][pc[Caller] = "recv" /\ pc'[Caller] = "ready" /\ result' = "other" =>
       on[Caller] \in mixed]_vars

(* And only there a thread sees a second login that did not happen.        *)
ToldOnlyIfKicked ==
  [][\A k \in Keepers :
       pc[k] # "told" /\ pc'[k] = "told" => on[k] \in kicked \cup mixed]_vars

(* The program is to check clientState_ with a timer: once the threads of  *)
(* KeepAlive have ended, clientState_ or, since a lost connection is still *)
(* CLIENT_CONNECTED, GetSocket() shows it, whoever else has reconnected.   *)
EndIsVisible ==
  watched /\ (\A k \in Keepers : ~Alive(k)) =>
    clientSocket_ = NULL \/ clientState_ # "connected"

(* Login returns, whatever the server does.                                *)
LoginReturns ==
  pc[Caller] \in {"receive", "recv"} /\ call.by = "login" ~> pc[Caller] = "ready"

Watching(s) == watched /\ clientSocket_ = s
Over(s) == clientSocket_ # s \/ clientState_ # "connected" \/ Crashed

(* A connection that is watched and broken is given up.                    *)
DeadServerNoticed ==
  \A s \in Sockets :
    Watching(s) /\ link[s] \in {"ended", "reset", "closed"} ~> Over(s)

(* The caller makes no more requests from some point on.                   *)
StopsCalling == <>[][FALSE]_call

(* A user who has logged in elsewhere is told so, or loses the connection, *)
(* once the caller leaves the connection to KeepAlive: it does not matter  *)
(* which replies the two took from each other before.                      *)
KickedIsTold ==
  StopsCalling => \A s \in Sockets : Watching(s) /\ s \in kicked ~> Over(s)
=============================================================================
