---------------------------- MODULE MatrixClient ----------------------------
(***************************************************************************)
(* The threads of the command line client around a matrix server.          *)
(*                                                                         *)
(*   CLI (cli.cpp)  reads the user's commands: "matrix <host> ..." spawns  *)
(*     an mtx and a msg thread, "matrix disconnect" and "exit" raise       *)
(*     g_matrix_shutdown and wait for all threads that were spawned;       *)
(*   mtx (matrix_thread, cli_matrix_thread.cpp)  logs in, asks the server  *)
(*     for news over and over, and saves the session in the end;           *)
(*   msg (message_thread, cli_message_thread.cpp)  is told of parsed       *)
(*     messages and of the end through inproc://msg_mtx, which only one    *)
(*     thread can be bound to.                                             *)
(*                                                                         *)
(* The i-th "matrix" command spawns mtx thread i and msg thread i.  The    *)
(* calls of login and close (cli_matrix_thread.cpp:1145-1146) return when  *)
(* the last request has been answered and its callback has made no other.  *)
(***************************************************************************)
EXTENDS Naturals, Sequences, FiniteSets

CONSTANTS
  MaxLogins,  \* bound on the number of "matrix" commands
  MaxWire     \* bound on the messages waiting for the msg thread

ASSUME MatrixAssumption ==
  MaxLogins \in Nat /\ MaxWire \in Nat \ {0}

Logins == 1 .. MaxLogins

VARIABLES
  connected,  \* g_matrix_connected
  shutdown,   \* g_matrix_shutdown
  cli,        \* where the CLI is: at the prompt, past the test of
              \* g_matrix_connected, waiting for the threads, or at an end
  leaving,    \* whether it waits in order to exit
  logins,     \* the "matrix" commands so far
  joinable,   \* g_threads: the logins whose threads have not been joined
  careless,   \* history: whether the user has logged in before all threads of
              \* an earlier login had ended, or with a port that is no number
  mtx,        \* where mtx thread i is
  msg,        \* where msg thread i is
  wire        \* inproc://msg_mtx: what the msg thread has not read yet

cliVars == <<cli, leaving, logins, joinable, careless>>
vars == <<connected, shutdown, cliVars, mtx, msg, wire>>

Running == cli \in {"prompt", "raise", "join"}
Ended(i) == mtx[i] \in {"off", "done"} /\ msg[i] \in {"off", "done"}
Session == {"connect", "login", "initial", "sync", "closing", "reset"}

-----------------------------------------------------------------------------
(* The CLI.                                                                *)

\* "matrix <host>[:<port>] <user> <password>"; the port may be no number.
Login ==
  /\ cli = "prompt" /\ logins < MaxLogins
  /\ \E first \in {"check", "badport"} :
       /\ mtx' = [mtx EXCEPT ![logins + 1] = first]
       /\ careless' = (careless \/ first = "badport"
                                \/ \E i \in Logins : ~Ended(i))
  /\ msg' = [msg EXCEPT ![logins + 1] = "bind"]
  /\ logins' = logins + 1
  /\ joinable' = joinable \cup {logins + 1}
  /\ UNCHANGED <<connected, shutdown, cli, leaving, wire>>

\* "matrix disconnect" (leaving FALSE), or "exit" (TRUE), when connected.
Leave ==
  /\ cli = "prompt" /\ connected
  /\ leaving' \in BOOLEAN
  /\ cli' = "raise"
  /\ UNCHANGED <<connected, shutdown, logins, joinable, careless, mtx, msg,
                 wire>>

\* "exit" when not connected: a thread that was never joined, whether or not
\* it still runs, makes the destructor of g_threads terminate the process.
ExitOffline ==
  /\ cli = "prompt" /\ ~connected
  /\ cli' = IF joinable = {} THEN "exited" ELSE "terminated"
  /\ UNCHANGED <<connected, shutdown, leaving, logins, joinable, careless, mtx,
                 msg, wire>>

\* SIGINT or SIGTERM (s_signal_handler, cli.cpp:39-43), wherever the CLI is: as
\* "exit", but a CLI that waits for a thread already would wait for it twice,
\* which throws.
Interrupt ==
  /\ Running
  /\ IF connected
     THEN /\ cli' = IF cli = "join" THEN "interrupted" ELSE "raise"
          /\ leaving' = TRUE
     ELSE /\ cli' = IF joinable = {} THEN "exited" ELSE "terminated"
          /\ UNCHANGED leaving
  /\ UNCHANGED <<connected, shutdown, logins, joinable, careless, mtx, msg,
                 wire>>

Raise ==
  /\ cli = "raise"
  /\ shutdown' = TRUE
  /\ cli' = "join"
  /\ UNCHANGED <<connected, leaving, logins, joinable, careless, mtx, msg,
                 wire>>

\* All threads have ended.
Join ==
  /\ cli = "join"
  /\ \A i \in joinable : Ended(i)
  /\ joinable' = {}
  /\ cli' = IF leaving THEN "exited" ELSE "prompt"
  /\ UNCHANGED <<connected, shutdown, leaving, logins, careless, mtx, msg,
                 wire>>

-----------------------------------------------------------------------------
(* The mtx thread and the callbacks of its requests.                       *)

\* mtx thread i goes from one place to another.
Step(i, from, to) ==
  /\ Running
  /\ mtx[i] = from
  /\ mtx' = [mtx EXCEPT ![i] = to]

\* A thread that finds the client connected, or its port no number, returns.
Check(i) ==
  /\ \/ Step(i, "check", IF connected THEN "done" ELSE "connect")
     \/ Step(i, "badport", "done")
  /\ UNCHANGED <<connected, shutdown, msg, wire, cliVars>>

\* Past the set-up of the clients and the socket to the msg thread.
Connect(i) ==
  /\ Step(i, "connect", "login")
  /\ connected' = TRUE
  /\ UNCHANGED <<shutdown, msg, wire, cliVars>>

\* Mutant: a session that begins lowers what may be left from an earlier one.
LoginOkFresh(i) ==
  /\ Step(i, "login", "initial")
  /\ shutdown' = FALSE
  /\ UNCHANGED <<connected, msg, wire, cliVars>>

\* login_cb and the callback of the upload of keys: both must succeed.
LoginOk(i) ==
  /\ Step(i, "login", "initial")
  /\ UNCHANGED <<connected, shutdown, msg, wire, cliVars>>

LoginError(i) ==
  /\ Step(i, "login", "closing")
  /\ UNCHANGED <<connected, shutdown, msg, wire, cliVars>>

\* initial_sync_handler: an answer that cannot be parsed ends the session;
\* after any other error the request is made again.
InitialUnparsed(i) ==
  /\ Step(i, "initial", "closing")
  /\ UNCHANGED <<connected, shutdown, msg, wire, cliVars>>

\* sync_handler and initial_sync_handler: a request that failed is made again,
\* whatever g_matrix_shutdown is.
SyncError(i) ==
  /\ Running /\ mtx[i] \in {"initial", "sync"}
  /\ UNCHANGED vars

\* Mutant: g_matrix_shutdown is not looked at.
SyncOkDeaf(i) ==
  /\ Step(i, "initial", "sync") \/ Step(i, "sync", "sync")
  /\ Len(wire) < MaxWire
  /\ wire' = Append(wire, "parsed_messages")
  /\ UNCHANGED <<connected, shutdown, msg, cliVars>>

\* Both handlers on success: the end if g_matrix_shutdown is raised; otherwise
\* messages are parsed, the msg thread is told and the next request is made.
SyncOk(i) ==
  /\ \E from \in {"initial", "sync"} :
       IF shutdown
       THEN Step(i, from, "closing") /\ UNCHANGED wire
       ELSE /\ Step(i, from, "sync")
            /\ Len(wire) < MaxWire
            /\ wire' = Append(wire, "parsed_messages")
  /\ UNCHANGED <<connected, shutdown, msg, cliVars>>

\* Mutant: g_matrix_connected is not lowered.
ClosingKeeps(i) ==
  /\ Step(i, "closing", "reset")
  /\ UNCHANGED <<connected, shutdown, msg, wire, cliVars>>

\* Mutant: the msg thread is told before the flags are lowered.
ClosingNotifies(i) ==
  /\ Step(i, "closing", "reset")
  /\ connected' = FALSE
  /\ wire' = Append(wire, "SHUTDOWN")
  /\ UNCHANGED <<shutdown, msg, cliVars>>

\* After login and close have returned: the two flags are lowered one after the other.
Closing(i) ==
  /\ Step(i, "closing", "reset")
  /\ connected' = FALSE
  /\ UNCHANGED <<shutdown, msg, wire, cliVars>>

Reset(i) ==
  /\ Step(i, "reset", "notify")
  /\ shutdown' = FALSE
  /\ UNCHANGED <<connected, msg, wire, cliVars>>

\* Mutant: the msg thread is not told.
NotifySilent(i) ==
  /\ Step(i, "notify", "done")
  /\ UNCHANGED <<connected, shutdown, msg, wire, cliVars>>

\* Mutant: the msg thread is sent a word it does not know.
NotifyOther(i) ==
  /\ Step(i, "notify", "done")
  /\ wire' = Append(wire, "DISCONNECT")
  /\ UNCHANGED <<connected, shutdown, msg, cliVars>>

\* The msg thread is told of the end, the socket to it is given up, the session is
\* saved and the thread ends: one step, for what comes after the message to the
\* msg thread touches nothing of this module.
Notify(i) ==
  /\ Step(i, "notify", "done")
  /\ wire' = Append(wire, "SHUTDOWN")
  /\ UNCHANGED <<connected, shutdown, msg, cliVars>>

-----------------------------------------------------------------------------
(* The msg thread.                                                         *)

\* inproc://msg_mtx is free: the thread is bound to it.
BindMsg(i) ==
  /\ Running /\ msg[i] = "bind"
  /\ \A j \in Logins : msg[j] # "listen"
  /\ msg' = [msg EXCEPT ![i] = "listen"]
  /\ UNCHANGED <<connected, shutdown, mtx, wire, cliVars>>

\* Another thread is bound to it: bind throws, and the process aborts.
BindMsgTwice(i) ==
  /\ Running /\ msg[i] = "bind"
  /\ \E j \in Logins : msg[j] = "listen"
  /\ cli' = "aborted"
  /\ UNCHANGED <<connected, shutdown, leaving, logins, joinable, careless, mtx,
                 msg, wire>>

\* msg_handle_mtx.
HandleMtx(i) ==
  /\ Running /\ msg[i] = "listen" /\ wire # <<>>
  /\ msg' = IF Head(wire) = "SHUTDOWN" THEN [msg EXCEPT ![i] = "done"] ELSE msg
  /\ wire' = Tail(wire)
  /\ UNCHANGED <<connected, shutdown, mtx, cliVars>>

-----------------------------------------------------------------------------
Init ==
  /\ connected = FALSE /\ shutdown = FALSE
  /\ cli = "prompt" /\ leaving = FALSE /\ logins = 0 /\ joinable = {}
  /\ careless = FALSE
  /\ mtx = [i \in Logins |-> "off"]
  /\ msg = [i \in Logins |-> "off"]
  /\ wire = <<>>

Cli == Login \/ Leave \/ ExitOffline \/ Interrupt \/ Raise \/ Join

Answer(i) == LoginOk(i) \/ LoginError(i) \/ InitialUnparsed(i)

Own(i) == Check(i) \/ Connect(i) \/ Closing(i) \/ Reset(i) \/ Notify(i)

Msg(i) == BindMsg(i) \/ BindMsgTwice(i) \/ HandleMtx(i)

Next ==
  \/ Cli
  \/ \E i \in Logins :
       Own(i) \/ Answer(i) \/ SyncOk(i) \/ SyncError(i) \/ Msg(i)

Spec == Init /\ [][Next]_vars

\* The threads are scheduled and the server answers the login; the user need
\* not do anything, and every other request may fail for ever.
Fairness ==
  /\ WF_vars(Raise) /\ WF_vars(Join)
  /\ \A i \in Logins :
       /\ WF_vars(Own(i)) /\ WF_vars(LoginOk(i) \/ LoginError(i))
       /\ WF_vars(Msg(i))

FairSpec == Spec /\ Fairness

\* A request that is made again and again succeeds in the end.
OnlineSpec == FairSpec /\ \A i \in Logins : SF_vars(SyncOk(i))

-----------------------------------------------------------------------------
(* Properties.                                                             *)

\* The flags, the threads and what they tell each other keep their types.
TypeOK ==
  /\ connected \in BOOLEAN /\ shutdown \in BOOLEAN
  /\ leaving \in BOOLEAN /\ careless \in BOOLEAN
  /\ cli \in {"prompt", "raise", "join", "exited", "terminated",
              "interrupted", "aborted"}
  /\ logins \in 0 .. MaxLogins
  /\ joinable \subseteq 1 .. logins
  /\ mtx \in [Logins -> {"off", "check", "badport", "notify", "done"}
                          \cup Session]
  /\ msg \in [Logins -> {"off", "bind", "listen", "done"}]
  /\ wire \in Seq({"parsed_messages", "SHUTDOWN"})

\* Unless the user is careless sessions do not overlap: no login finds the client
\* connected, and no message of one session is left for the next one's msg
\* thread.  So the globals of cli_matrix_thread.cpp:42-48 belong to one thread.
\* Of g_matrix_shutdown it says nothing: LoginStartsFresh does.
SessionsApart ==
  ~careless /\ Running =>
    \A i \in Logins : mtx[i] \notin {"off", "done"} =>
      /\ i = logins
      /\ \A j \in Logins \ {i} : Ended(j)
      /\ mtx[i] \in {"check", "connect"} => ~connected /\ wire = <<>>

\* For a careful user, SHUTDOWN is sent when the session is over, and nothing
\* follows it on the wire: no parsed messages wait behind it for a msg thread that
\* has ended, or for the one of the next session (cli_matrix_thread.cpp:1150-1154).
ShutdownIsLast ==
  ~careless => \A n \in 1 .. Len(wire) :
    wire[n] = "SHUTDOWN" => n = Len(wire) /\ mtx[logins] = "done"

\* "Waiting for matrix thread to quit" (cli.cpp:547): while the CLI waits on behalf
\* of a careful user and the session goes on, g_matrix_shutdown stays raised, so that
\* the next sync that succeeds ends the session.
RaisedIsHeard ==
  ~careless /\ cli = "join" =>
    \A i \in Logins : mtx[i] \in {"login", "initial", "sync"} => shutdown

\* The user who disconnects or exits is not kept waiting for ever, and all
\* threads have ended then (cli.cpp:545-551 and :31-36).
DisconnectEnds == cli = "join" /\ ~careless ~> cli # "join"

\* "the threads are finished" (doc/communication.md:188): the msg thread of a user
\* who waits for one login before the next, and gives ports that are numbers, ends
\* after its mtx thread, whether or not the CLI waits for them.
MsgFollowsMtx ==
  \A i \in Logins :
    mtx[i] = "done" ~> msg[i] = "done" \/ ~Running \/ careless

\* "When the user disconnects from the matrix server, the threads are finished
\* and recreated for a new matrix login" (doc/communication.md:188-189): a
\* session does not start with the shutdown of an earlier one.
LoginStartsFresh ==
  ~careless => \A i \in Logins : mtx[i] = "connect" => ~shutdown

\* The threads are recreated for a new login: a second one does not abort the
\* client ("already connected", cli_matrix_thread.cpp:1097).
NoAbortAtLogin == cli # "aborted"

\* "graceful exit" (cli.cpp:29): the process is not terminated for a thread
\* that nobody has joined.
ExitIsGraceful == cli = "terminated" => careless
=============================================================================
