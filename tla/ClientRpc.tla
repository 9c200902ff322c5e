----------------------------- MODULE ClientRpc -----------------------------
(***************************************************************************)
(* Clients that send commands to one daemon (pirate_send, zmq_util.cpp: a  *)
(* "lazy pirate"), and the db thread that answers them one at a time       *)
(* through a REP socket (db_thread and db_client_op,                       *)
(* daemon_db_thread.cpp).  All clients act for one user.                   *)
(*                                                                         *)
(* Every attempt to send a command uses a socket of its own.  A request    *)
(* that has reached the daemon waits there whatever becomes of the socket; *)
(* one that has not is dropped when the socket is closed, for it does not  *)
(* linger.  A reply to a socket that is closed is dropped.  Requests from  *)
(* several sockets may be taken in any order (fair queueing).              *)
(***************************************************************************)
EXTENDS Naturals, Sequences, FiniteSets

CONSTANTS
  Clients,   \* the clients
  Ads,       \* the ads they add, remove and look for
  Retries,   \* REQUEST_RETRIES
  MaxCmds,   \* bound on the commands of a client
  MaxStops   \* bound on the number of times the daemon is stopped

ASSUME RpcAssumption ==
  Retries \in Nat \ {0} /\ MaxCmds \in Nat /\ MaxStops \in Nat

\* "db add json <file of one ad>", "db rm <hash>", "db query <words of an ad>"
Cmd == [op : {"add", "rm", "query"}, ad : Ads]

\* What db_client_op replies: a count, "no docs", or nothing at all.
Reply == [text : {"added", "removed", "found"}, n : {0, 1}]
           \cup [text : {"no docs", ""}, n : {0}]
NoReply    == [text |-> "none", n |-> 0]
NoResponse == [text |-> "No response from server", n |-> 0]

\* A request is a command, its client, its number and the client's socket.
Request == [client : Clients, no : 1 .. MaxCmds,
            sock : Nat, cmd : Cmd]

VARIABLES
  count,     \* the commands a client has sent
  sock,      \* the socket it uses, or used last: sockets are numbered
  req,       \* the request it sends through it
  retries,   \* the attempts left; 0 when pirate_send has returned
  got,       \* history: whether a reply to the command has been received
  shown,     \* the reply that pirate_send returned last
  up,        \* whether the daemon's RPC port is bound
  stops,     \* the times the daemon has been stopped
  out,       \* requests that have not reached the daemon
  in,        \* requests that have
  back,      \* replies under way to their sockets
  db,        \* the ads in the daemon's database
  created,   \* whether there is a database on disk
  replies    \* history: the replies the daemon made to each command

clientVars == <<count, sock, req, retries, got, shown>>
daemonVars == <<up, stops, db, created, replies>>
vars == <<clientVars, daemonVars, out, in, back>>

NoReq == [client |-> "none"]

-----------------------------------------------------------------------------
(* The client.                                                             *)

Sending(c) == retries[c] > 0

\* c closes its socket, makes another and sends r through it.
Issue(c, r) ==
  /\ req' = [req EXCEPT ![c] = r]
  /\ sock' = [sock EXCEPT ![c] = r.sock]
  /\ out' = (out \ {req[c]}) \cup {r}

\* The replies that are left when c closes its socket.
BackWithout(c) == {b \in back : b.req.client # c \/ b.req.sock # sock[c]}

\* pirate_send starts to send command k, through socket s, with n attempts.
Started(c, k, s, n) ==
  /\ ~Sending(c)
  /\ count[c] < MaxCmds
  /\ Issue(c, [client |-> c, no |-> count[c] + 1, sock |-> s, cmd |-> k])
  /\ count' = [count EXCEPT ![c] = @ + 1]
  /\ retries' = [retries EXCEPT ![c] = n]
  /\ got' = [got EXCEPT ![c] = FALSE]
  /\ shown' = [shown EXCEPT ![c] = NoReply]
  /\ UNCHANGED <<in, back, daemonVars>>

\* Mutant: the socket of the last command is kept for the next one.
SendKeepsSocket(c, k) ==
  Started(c, k, IF sock[c] = 0 THEN 1 ELSE sock[c], Retries)

\* Mutant: one attempt too many.
SendOneMore(c, k) == Started(c, k, sock[c] + 1, Retries + 1)

\* send_cmd, for a user who is logged in, and pirate_send up to the poll.
Send(c, k) == Started(c, k, sock[c] + 1, Retries)

\* A reply comes through the socket in use, which is closed when pirate_send
\* returns.  An empty reply is only logged: the client waits for another.
Receive(c) ==
  /\ Sending(c)
  /\ \E b \in back :
       /\ b.req.client = c /\ b.req.sock = sock[c]
       /\ IF b.reply.text # ""
          THEN /\ shown' = [shown EXCEPT ![c] = b.reply]
               /\ retries' = [retries EXCEPT ![c] = 0]
               /\ back' = BackWithout(c)
          ELSE /\ back' = back \ {b}
               /\ UNCHANGED <<shown, retries>>
  /\ got' = [got EXCEPT ![c] = TRUE]
  /\ UNCHANGED <<count, sock, req, out, in, daemonVars>>

\* Mutant: the client polls again without taking an attempt off.
TimeoutWaits(c) == Sending(c) /\ UNCHANGED vars

\* No reply within REQUEST_TIMEOUT: the socket is closed and the command sent
\* again through a new one; after the last attempt it is given up.
Timeout(c) ==
  /\ Sending(c)
  /\ retries' = [retries EXCEPT ![c] = @ - 1]
  /\ back' = BackWithout(c)
  /\ IF retries[c] = 1
     THEN /\ shown' = [shown EXCEPT ![c] = NoResponse]
          /\ out' = out \ {req[c]}
          /\ UNCHANGED <<req, sock>>
     ELSE /\ Issue(c, [req[c] EXCEPT !.sock = @ + 1])
          /\ UNCHANGED shown
  /\ UNCHANGED <<count, got, in, daemonVars>>

-----------------------------------------------------------------------------
(* The daemon.                                                             *)

\* A request reaches the daemon.
Arrive(r) ==
  /\ up
  /\ out' = out \ {r}
  /\ in' = in \cup {r}
  /\ UNCHANGED <<clientVars, daemonVars, back>>

\* The database after a command, and the reply to it.  Removing opens the
\* database in a way that creates it; looking for an ad does not, and fails
\* without a word when there is none.
Found(ad) == IF ad \in db THEN 1 ELSE 0

DbAfter(k) ==
  CASE k.op = "add" -> db \cup {k.ad}
    [] k.op = "rm" -> db \ {k.ad}
    [] k.op = "query" -> db

ReplyTo(k) ==
  CASE k.op = "add" -> [text |-> "added", n |-> 1 - Found(k.ad)]
    [] k.op = "rm" /\ db # {} -> [text |-> "removed", n |-> Found(k.ad)]
    [] k.op = "rm" /\ db = {} -> [text |-> "no docs", n |-> 0]
    [] k.op = "query" /\ created -> [text |-> "found", n |-> Found(k.ad)]
    [] k.op = "query" /\ ~created -> [text |-> "", n |-> 0]

SocketOpen(r) == Sending(r.client) /\ sock[r.client] = r.sock

\* The db thread takes a request, carries it out and replies.  When the daemon is
\* killed in between, the reply is one that the client never receives.
Answer(r) ==
  /\ up
  /\ in' = in \ {r}
  /\ db' = DbAfter(r.cmd)
  /\ created' = (created \/ r.cmd.op # "query")
  /\ back' = IF SocketOpen(r)
             THEN back \cup {[req |-> r, reply |-> ReplyTo(r.cmd)]}
             ELSE back
  /\ replies' = [replies EXCEPT
                   ![r.client][r.no] = Append(@, ReplyTo(r.cmd))]
  /\ UNCHANGED <<clientVars, up, stops, out>>

\* The RPC port is bound.
StartDaemon ==
  /\ ~up
  /\ up' = TRUE
  /\ UNCHANGED <<clientVars, stops, db, created, replies, out, in, back>>

\* The daemon is killed between two commands: requests that wait are lost.
StopDaemon ==
  /\ up /\ stops < MaxStops
  /\ up' = FALSE
  /\ stops' = stops + 1
  /\ in' = {}
  /\ UNCHANGED <<clientVars, db, created, replies, out, back>>

-----------------------------------------------------------------------------
Init ==
  /\ count = [c \in Clients |-> 0]
  /\ sock = [c \in Clients |-> 0]
  /\ req = [c \in Clients |-> NoReq]
  /\ retries = [c \in Clients |-> 0]
  /\ got = [c \in Clients |-> FALSE]
  /\ shown = [c \in Clients |-> NoReply]
  /\ up = FALSE /\ stops = 0
  /\ out = {} /\ in = {} /\ back = {}
  /\ db = {} /\ created = FALSE
  /\ replies = [c \in Clients |-> [i \in 1 .. MaxCmds |-> <<>>]]

Client(c) == (\E k \in Cmd : Send(c, k)) \/ Receive(c) \/ Timeout(c)

Daemon ==
  \/ \E r \in out : Arrive(r)
  \/ \E r \in in : Answer(r)
  \/ StartDaemon \/ StopDaemon

Next == Daemon \/ \E c \in Clients : Client(c)

Spec == Init /\ [][Next]_vars

\* A poll ends by its time-out at the latest; the daemon owes nothing.
FairSpec == Spec /\ \A c \in Clients : WF_vars(Receive(c) \/ Timeout(c))

-----------------------------------------------------------------------------
(* Properties.                                                             *)

\* Requests are well formed wherever they are, and replies are Replies.
TypeOK ==
  /\ count \in [Clients -> 0 .. MaxCmds]
  /\ sock \in [Clients -> Nat]
  /\ req \in [Clients -> Request \cup {NoReq}]
  /\ retries \in [Clients -> 0 .. Retries]
  /\ got \in [Clients -> BOOLEAN]
  /\ shown \in [Clients -> Reply \cup {NoReply, NoResponse}]
  /\ up \in BOOLEAN /\ stops \in 0 .. MaxStops
  /\ out \subseteq Request /\ in \subseteq Request
  /\ back \subseteq [req : Request, reply : Reply]
  /\ db \subseteq Ads /\ created \in BOOLEAN
  /\ replies \in [Clients -> [1 .. MaxCmds -> Seq(Reply)]]

Told(c) == shown[c] \notin {NoReply, NoResponse}
RepliesTo(c) == {replies[c][count[c]][i] : i \in 1 .. Len(replies[c][count[c]])}

\* What a client shows is a reply the daemon made to the very command it sent,
\* never one to an earlier command of its own that was given up and carried out
\* late: every attempt has a socket of its own (zmq_util.cpp:71 and :99).
ShownAnswersCommand == \A c \in Clients : Told(c) => shown[c] \in RepliesTo(c)

\* The daemon carries a command out at most REQUEST_RETRIES times, and only once
\* for each socket, whatever is delayed, given up or sent again.
AtMostRetries ==
  \A c \in Clients, i \in 1 .. MaxCmds : Len(replies[c][i]) <= Retries

\* A command always returns, with or without a daemon: the attempts are counted
\* down, by empty replies too (zmq_util.cpp:82-103).
EveryCommandReturns == \A c \in Clients : Sending(c) ~> ~Sending(c)

\* "Info string showing how many documents have been added" (db.cpp:105): the
\* command that put an ad into the database is not told that it added none.
ShownCountIsTrue ==
  \A c \in Clients :
    Told(c) /\ [text |-> "added", n |-> 1] \in RepliesTo(c) => shown[c].n = 1

\* "Response from remote host" is what pirate_send returns (zmq_util.cpp:64):
\* not "No response from server" when the server has responded.
ResponseIsShown == \A c \in Clients : got[c] => shown[c] # NoResponse
=============================================================================
