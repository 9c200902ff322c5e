------------------------- MODULE MatrixClientProofs -------------------------
(***************************************************************************)
(* The sessions of one client follow each other, for any number of logins  *)
(* and any length of the wire to the msg thread.                           *)
(*                                                                         *)
(* Threads that have not been spawned are nowhere (SpawnedInTurn).  That   *)
(* the sessions of a user who waits for the end of one before the next do  *)
(* not touch each other needs more: where the last login's threads are has *)
(* to agree with g_matrix_connected and with what the msg thread has not   *)
(* read yet (OneSession).  From that it follows that the CLI raises        *)
(* g_matrix_shutdown for a session that has been connected, and that no    *)
(* other will lower it (RaisedInSession).                                  *)
(***************************************************************************)
EXTENDS MatrixClient, TLAPS

\* Threads are spawned in turn: those of later logins are nowhere yet.
SpawnedInTurn ==
  \A j \in Logins : j > logins => mtx[j] = "off" /\ msg[j] = "off"

\* What the msg thread has not read has no SHUTDOWN in it.
WireOpen == \A n \in 1 .. Len(wire) : wire[n] # "SHUTDOWN"

\* It has one SHUTDOWN, at its end.
WireOver ==
  wire # <<>> /\ \A n \in 1 .. Len(wire) : wire[n] = "SHUTDOWN" <=> n = Len(wire)

\* All logins but the last have ended, and the last one's place tells what
\* the flag of the client and the wire to the msg thread are.
OneSession ==
  /\ \A j \in Logins : j < logins => Ended(j)
  /\ logins = 0 => ~connected /\ wire = <<>>
  /\ logins > 0 =>
       /\ mtx[logins] \notin {"off", "badport"}
       /\ mtx[logins] \in {"check", "connect"} => wire = <<>>
       /\ mtx[logins] \notin {"login", "initial", "sync", "closing"} => ~connected
       /\ mtx[logins] # "done" => msg[logins] \in {"bind", "listen"} /\ WireOpen
       /\ mtx[logins] = "done" =>
            \/ msg[logins] \in {"bind", "listen"} /\ WireOver
            \/ msg[logins] = "done" /\ wire = <<>>

\* The CLI leaves when the client is connected, and no login follows before the
\* threads have ended (cli.cpp:542-551).
RaisedInSession ==
  ~careless /\ cli \in {"raise", "join"} =>
    logins > 0 /\ mtx[logins] \notin {"check", "connect"}

\* The inductive invariant.
IInv ==
  /\ TypeOK
  /\ SpawnedInTurn
  /\ ~careless => OneSession
  /\ RaisedInSession
  /\ RaisedIsHeard

-----------------------------------------------------------------------------
\* The invariant holds initially: nobody has logged in.
LEMMA InitIInv == Init => IInv
  <1> SUFFICES ASSUME Init PROVE IInv
    OBVIOUS
  <1>1. TypeOK
    <2>1. /\ mtx \in [Logins -> {"off", "check", "badport", "notify", "done"}
                                 \cup Session]
          /\ msg \in [Logins -> {"off", "bind", "listen", "done"}]
      BY DEF Init
    <2>2. wire \in Seq({"parsed_messages", "SHUTDOWN"})
      BY DEF Init
    <2>3. logins \in 0 .. MaxLogins /\ joinable \subseteq 1 .. logins
      BY MatrixAssumption DEF Init
    <2> QED BY <2>1, <2>2, <2>3 DEF Init, TypeOK
  <1>2. OneSession
    BY DEF Init, OneSession, Logins
  <1> QED BY <1>1, <1>2
          DEF Init, IInv, SpawnedInTurn, RaisedInSession, RaisedIsHeard

-----------------------------------------------------------------------------
\* The flags, the threads and what they tell each other keep their types.
LEMMA StepType == TypeOK /\ [Next]_vars => TypeOK'
  <1> SUFFICES ASSUME TypeOK, [Next]_vars PROVE TypeOK'
    OBVIOUS
  <1> USE MatrixAssumption DEF TypeOK
  <1>1. CASE UNCHANGED vars
    BY <1>1 DEF vars, cliVars
  <1>2. CASE Login
    BY <1>2 DEF Login, Logins
  <1>3. CASE Leave \/ ExitOffline \/ Interrupt \/ Raise \/ Join
    BY <1>3 DEF Leave, ExitOffline, Interrupt, Raise, Join
  <1>4. ASSUME NEW i \in Logins,
               Check(i) \/ Connect(i) \/ Closing(i) \/ Reset(i) \/ Answer(i)
        PROVE  TypeOK'
    BY <1>4 DEF Check, Connect, Closing, Reset, Answer, LoginOk, LoginError,
                InitialUnparsed, Step, Session, cliVars
  <1>5. ASSUME NEW i \in Logins, Notify(i) \/ SyncOk(i)
        PROVE  TypeOK'
    <2> DEFINE P == {"off", "check", "badport", "notify", "done"} \cup Session
    <2>1. \E to \in P : mtx' = [mtx EXCEPT ![i] = to]
      BY <1>5 DEF Notify, SyncOk, Step, Session
    <2>2. mtx' \in [Logins -> P]
      BY <2>1
    <2>3. wire' \in Seq({"parsed_messages", "SHUTDOWN"})
      BY <1>5 DEF Notify, SyncOk
    <2> QED BY <1>5, <2>2, <2>3 DEF Notify, SyncOk, cliVars
  <1>6. ASSUME NEW i \in Logins, Msg(i)
        PROVE  TypeOK'
    <2>1. CASE BindMsg(i)
      BY <2>1 DEF BindMsg, cliVars
    <2>2. CASE BindMsgTwice(i)
      BY <2>2 DEF BindMsgTwice
    <2>3. CASE HandleMtx(i)
      <3>1. msg' \in [Logins -> {"off", "bind", "listen", "done"}]
        BY <2>3 DEF HandleMtx
      <3>2. wire' \in Seq({"parsed_messages", "SHUTDOWN"})
        BY <2>3 DEF HandleMtx
      <3> QED BY <2>3, <3>1, <3>2 DEF HandleMtx, cliVars
    <2> QED BY <1>6, <2>1, <2>2, <2>3 DEF Msg
  <1>7. ASSUME NEW i \in Logins, SyncError(i)
        PROVE  TypeOK'
    BY <1>7 DEF SyncError, vars, cliVars
  <1> QED BY <1>1, <1>2, <1>3, <1>4, <1>5, <1>6, <1>7 DEF Next, Cli, Own


\* A thread moves after it has been spawned.
LEMMA StepSpawned == TypeOK /\ SpawnedInTurn /\ [Next]_vars => SpawnedInTurn'
  <1> SUFFICES ASSUME TypeOK, SpawnedInTurn, [Next]_vars
               PROVE  SpawnedInTurn'
    OBVIOUS
  <1> USE DEF SpawnedInTurn
  <1>1. CASE UNCHANGED <<logins, mtx, msg>>
    BY <1>1
  <1>2. CASE Login
    BY <1>2, MatrixAssumption DEF Login, TypeOK, Logins
  <1>3. ASSUME NEW i \in Logins, Own(i) \/ Answer(i) \/ SyncOk(i) \/ Msg(i)
        PROVE  SpawnedInTurn'
    <2>1. /\ mtx[i] # "off" \/ mtx' = mtx
          /\ msg[i] # "off" \/ msg' = msg
          /\ \A j \in Logins : j # i => mtx'[j] = mtx[j] /\ msg'[j] = msg[j]
          /\ logins' = logins
      BY <1>3 DEF Own, Check, Connect, Closing, Reset, Notify, Answer, LoginOk,
                  LoginError, InitialUnparsed, SyncOk, Step, Msg, BindMsg,
                  BindMsgTwice, HandleMtx, TypeOK, cliVars
    <2>2. i \in Nat /\ logins \in Nat
      BY MatrixAssumption DEF TypeOK, Logins
    <2> QED BY <2>1, <2>2
  <1>4. ASSUME Next, ~Login,
               \A j \in Logins : ~(Own(j) \/ Answer(j) \/ SyncOk(j) \/ Msg(j))
        PROVE  UNCHANGED <<logins, mtx, msg>>
    BY <1>4 DEF Next, Cli, Leave, ExitOffline, Interrupt, Raise, Join, SyncError,
                vars, cliVars
  <1> QED BY <1>1, <1>2, <1>3, <1>4 DEF vars, cliVars

-----------------------------------------------------------------------------
\* While no login was careless only the last one's threads can move.
LEMMA OnlyLastMoves ==
  ASSUME TypeOK, SpawnedInTurn, OneSession, NEW i \in Logins, ~Ended(i)
  PROVE  i = logins /\ logins > 0 /\ logins \in Nat
  <1>1. i \in Nat /\ logins \in Nat /\ i > 0
    BY MatrixAssumption DEF TypeOK, Logins
  <1>2. ~(i < logins) /\ ~(i > logins)
    BY DEF OneSession, SpawnedInTurn, Ended
  <1> QED BY <1>1, <1>2

\* What is sent to the msg thread comes last.
LEMMA WireSent ==
  ASSUME TypeOK, WireOpen, NEW m \in {"parsed_messages", "SHUTDOWN"},
         wire' = Append(wire, m)
  PROVE  IF m = "SHUTDOWN" THEN WireOver' ELSE WireOpen'
  <1>1. /\ wire \in Seq({"parsed_messages", "SHUTDOWN"})
        /\ Len(wire) \in Nat
    BY DEF TypeOK
  <1>2. /\ Len(wire') = Len(wire) + 1
        /\ wire'[Len(wire) + 1] = m
        /\ \A n \in 1 .. Len(wire) : wire'[n] = wire[n]
    BY <1>1
  <1>3. \A n \in 1 .. Len(wire') : n \in 1 .. Len(wire) \/ n = Len(wire) + 1
    BY <1>1, <1>2
  <1>4. \A n \in 1 .. Len(wire) : wire'[n] # "SHUTDOWN" /\ n # Len(wire')
    BY <1>1, <1>2 DEF WireOpen, WireOver
  <1>5. wire' # <<>> /\ (m = "SHUTDOWN" => wire'[Len(wire')] = "SHUTDOWN")
    BY <1>1, <1>2
  <1> QED BY <1>2, <1>3, <1>4, <1>5 DEF WireOpen, WireOver

\* The CLI spawns threads when all others have ended, or is not careful.
LEMMA LoginOneSession ==
  ASSUME TypeOK, SpawnedInTurn, OneSession, Login, ~careless'
  PROVE  OneSession'
  <1>1. /\ logins' = logins + 1
        /\ mtx' = [mtx EXCEPT ![logins + 1] = "check"]
        /\ msg' = [msg EXCEPT ![logins + 1] = "bind"]
        /\ UNCHANGED <<connected, wire>>
        /\ \A i \in Logins : Ended(i)
    BY DEF Login
  <1>2. logins \in Nat /\ logins + 1 \in Logins
    BY MatrixAssumption DEF Login, TypeOK, Logins
  <1>3. ~connected /\ wire = <<>>
    <2>1. CASE logins = 0
      BY <2>1 DEF OneSession
    <2>2. CASE logins # 0
      <3>1. logins \in Logins /\ logins > 0
        BY <1>2, <2>2, MatrixAssumption DEF Logins
      <3>2. mtx[logins] = "done" /\ msg[logins] = "done"
        BY <1>1, <3>1 DEF Ended, OneSession
      <3> QED BY <3>1, <3>2 DEF OneSession
    <2> QED BY <2>1, <2>2
  <1>4. mtx'[logins'] = "check" /\ msg'[logins'] = "bind"
    BY <1>1, <1>2 DEF TypeOK
  <1>5. \A j \in Logins : j < logins' => Ended(j)'
    BY <1>1, <1>2 DEF Ended, TypeOK
  <1> QED BY <1>1, <1>2, <1>3, <1>4, <1>5 DEF OneSession, WireOpen, WireOver

\* The mtx thread and the callbacks of its requests move.
LEMMA MtxOneSession ==
  ASSUME TypeOK, SpawnedInTurn, OneSession, NEW i \in Logins,
         Own(i) \/ Answer(i) \/ SyncOk(i)
  PROVE  OneSession'
  <1>1. /\ mtx[i] \notin {"off", "done"} /\ msg' = msg /\ logins' = logins
        /\ \A j \in Logins : j # i => mtx'[j] = mtx[j]
    BY DEF Own, Check, Connect, Closing, Reset, Notify, Answer, LoginOk,
           LoginError, InitialUnparsed, SyncOk, Step, TypeOK, cliVars
  <1>2. i = logins /\ logins > 0 /\ logins \in Nat
    BY <1>1, OnlyLastMoves DEF Ended
  <1>3. \A j \in Logins : j < logins => Ended(j)'
    BY <1>1, <1>2 DEF OneSession, Ended
  <1>4. /\ msg[i] \in {"bind", "listen"} /\ WireOpen
        /\ mtx[i] \in {"check", "connect"} => wire = <<>>
        /\ mtx[i] \notin {"login", "initial", "sync", "closing"} => ~connected
        /\ mtx[i] # "badport"
    BY <1>1, <1>2 DEF OneSession
  <1> SUFFICES
        /\ mtx'[i] \notin {"off", "badport"}
        /\ mtx'[i] \in {"check", "connect"} => wire' = <<>>
        /\ mtx'[i] \notin {"login", "initial", "sync", "closing"} => ~connected'
        /\ mtx'[i] # "done" => WireOpen'
        /\ mtx'[i] = "done" => WireOver'
    BY <1>1, <1>2, <1>3, <1>4 DEF OneSession
  <1>5. CASE Check(i)
    <2>1. mtx'[i] = "connect" /\ UNCHANGED <<connected, wire>>
      BY <1>4, <1>5 DEF Check, Step, TypeOK
    <2> QED BY <1>4, <1>5, <2>1 DEF WireOpen, WireOver, Check, Step
  <1>6. CASE Connect(i)
    <2>1. mtx'[i] = "login" /\ wire' = wire
      BY <1>6 DEF Connect, Step, TypeOK
    <2> QED BY <1>4, <2>1 DEF WireOpen, WireOver
  <1>7. CASE Closing(i) \/ Reset(i)
    <2>1. mtx'[i] \in {"reset", "notify"} /\ wire' = wire /\ ~connected'
      BY <1>4, <1>7 DEF Closing, Reset, Step, TypeOK
    <2> QED BY <1>4, <2>1 DEF WireOpen, WireOver
  <1>8. CASE Notify(i)
    <2>1. mtx'[i] = "done" /\ ~connected' /\ wire' = Append(wire, "SHUTDOWN")
      BY <1>4, <1>8 DEF Notify, Step, TypeOK
    <2>2. WireOver'
      BY <1>4, <2>1, WireSent
    <2> QED BY <2>1, <2>2
  <1>9. CASE Answer(i)
    <2>1. mtx'[i] \in {"initial", "closing"} /\ wire' = wire
      BY <1>9 DEF Answer, LoginOk, LoginError, InitialUnparsed, Step, TypeOK
    <2> QED BY <1>4, <2>1 DEF WireOpen, WireOver
  <1>10. CASE SyncOk(i)
    <2>1. /\ mtx'[i] \in {"closing", "sync"}
          /\ wire' = wire \/ wire' = Append(wire, "parsed_messages")
      BY <1>10 DEF SyncOk, Step, TypeOK
    <2>2. WireOpen'
      <3>1. CASE wire' = wire
        BY <1>4, <3>1 DEF WireOpen, WireOver
      <3>2. CASE wire' = Append(wire, "parsed_messages")
        BY <1>4, <3>2, WireSent
      <3> QED BY <2>1, <3>1, <3>2
    <2> QED BY <2>1, <2>2
  <1> QED BY <1>5, <1>6, <1>7, <1>8, <1>9, <1>10 DEF Own

\* The msg thread is bound, or reads what the mtx thread has sent.
LEMMA MsgOneSession ==
  ASSUME TypeOK, SpawnedInTurn, OneSession, NEW i \in Logins, Msg(i)
  PROVE  OneSession'
  <1>1. /\ msg[i] \in {"bind", "listen"}
        /\ UNCHANGED <<mtx, logins, connected>>
        /\ \A j \in Logins : j # i => msg'[j] = msg[j]
    BY DEF Msg, BindMsg, BindMsgTwice, HandleMtx, TypeOK, cliVars
  <1>2. i = logins /\ logins > 0 /\ logins \in Nat
    BY <1>1, OnlyLastMoves DEF Ended
  <1>3. \A j \in Logins : j < logins => Ended(j)'
    BY <1>1, <1>2 DEF OneSession, Ended
  <1>4. CASE BindMsg(i) \/ BindMsgTwice(i)
    <2>1. msg'[i] \in {"bind", "listen"} /\ wire' = wire
      BY <1>4 DEF BindMsg, BindMsgTwice, TypeOK
    <2> QED BY <1>1, <1>2, <1>3, <2>1 DEF OneSession, WireOpen, WireOver
  <1>5. CASE HandleMtx(i)
    <2>1. /\ wire # <<>> /\ wire' = Tail(wire) /\ msg[i] = "listen"
          /\ msg'[i] = IF Head(wire) = "SHUTDOWN" THEN "done" ELSE "listen"
      BY <1>5 DEF HandleMtx, TypeOK
    <2>2. /\ wire \in Seq({"parsed_messages", "SHUTDOWN"})
          /\ Len(wire) \in Nat /\ Len(wire) > 0
          /\ Head(wire) = wire[1] /\ Len(wire') = Len(wire) - 1
          /\ \A n \in 1 .. Len(wire') : wire'[n] = wire[n + 1]
          /\ Len(wire') = 0 => wire' = <<>>
      BY <2>1 DEF TypeOK
    <2>3. \A n \in 1 .. Len(wire') : n + 1 \in 1 .. Len(wire)
      BY <2>2
    <2>4. mtx[i] \notin {"check", "connect"}
      BY <1>2, <2>1 DEF OneSession
    <2>5. CASE mtx[i] # "done"
      <3>1. WireOpen
        BY <1>2, <2>5 DEF OneSession
      <3>2. Head(wire) # "SHUTDOWN" /\ WireOpen'
        BY <2>2, <2>3, <3>1 DEF WireOpen, WireOver
      <3>3. msg'[i] = "listen"
        BY <2>1, <3>2
      <3> QED BY <1>1, <1>2, <1>3, <2>4, <2>5, <3>2, <3>3 DEF OneSession
    <2>6. CASE mtx[i] = "done"
      <3>1. WireOver
        BY <1>2, <2>1, <2>6 DEF OneSession
      <3>2. \A n \in 1 .. Len(wire) : wire[n] = "SHUTDOWN" <=> n = Len(wire)
        BY <3>1 DEF WireOpen, WireOver
      <3>3. CASE Len(wire) = 1
        <4>1. msg'[i] = "done" /\ wire' = <<>>
          BY <2>1, <2>2, <3>2, <3>3
        <4> QED BY <1>1, <1>2, <1>3, <2>6, <4>1 DEF OneSession
      <3>4. CASE Len(wire) # 1
        <4>1. msg'[i] = "listen"
          <5>1. 1 \in 1 .. Len(wire) /\ 1 # Len(wire)
            BY <2>2, <3>4
          <5>2. wire[1] # "SHUTDOWN"
            BY <3>2, <5>1
          <5> QED BY <2>1, <2>2, <5>2
        <4>2. \A n \in 1 .. Len(wire') : wire'[n] = "SHUTDOWN" <=> n = Len(wire')
          BY <2>2, <2>3, <3>2
        <4>3. wire' # <<>>
          BY <2>1, <2>2, <3>4
        <4>4. WireOver'
          BY <4>2, <4>3 DEF WireOpen, WireOver
        <4> QED BY <1>1, <1>2, <1>3, <2>6, <4>1, <4>4 DEF OneSession
      <3> QED BY <3>3, <3>4
    <2> QED BY <2>5, <2>6
  <1> QED BY <1>4, <1>5 DEF Msg

\* A careful user's sessions follow each other.
LEMMA StepOneSession ==
  TypeOK /\ SpawnedInTurn /\ (~careless => OneSession) /\ [Next]_vars =>
    (~careless' => OneSession')
  <1> SUFFICES ASSUME TypeOK, SpawnedInTurn, ~careless => OneSession,
                      [Next]_vars, ~careless'
               PROVE  OneSession'
    OBVIOUS
  <1>1. ~careless
    BY DEF Next, Cli, Login, Leave, ExitOffline, Interrupt, Raise, Join, Own,
           Check, Connect, Closing, Reset, Notify, Answer, LoginOk, LoginError,
           InitialUnparsed, SyncOk, SyncError, Msg, BindMsg, BindMsgTwice,
           HandleMtx, vars, cliVars
  <1>2. OneSession
    BY <1>1
  <1>3. CASE UNCHANGED <<connected, logins, mtx, msg, wire>>
    BY <1>2, <1>3 DEF OneSession, Ended, WireOpen, WireOver
  <1>4. ASSUME Next, ~Login,
               \A i \in Logins : ~(Own(i) \/ Answer(i) \/ SyncOk(i) \/ Msg(i))
        PROVE  UNCHANGED <<connected, logins, mtx, msg, wire>>
    BY <1>4 DEF Next, Cli, Leave, ExitOffline, Interrupt, Raise, Join, SyncError,
                vars, cliVars
  <1> QED BY <1>2, <1>3, <1>4, LoginOneSession, MtxOneSession, MsgOneSession
             DEF vars, cliVars

\* A flag that has been raised for a session stays so until the session has heard
\* of it: only the thread of that session moves, and lowers it at its end.
LEMMA ThreadStepRaised ==
  ASSUME IInv, ~careless, cli \in {"raise", "join"}, cli' = cli, logins' = logins,
         NEW i \in Logins,
         Own(i) \/ Answer(i) \/ SyncOk(i)
  PROVE  RaisedInSession' /\ RaisedIsHeard'
  <1>1. /\ mtx[i] \notin {"off", "done"}
        /\ \A j \in Logins : j # i => mtx'[j] = mtx[j]
    BY DEF Own, Check, Connect, Closing, Reset, Notify, Answer, LoginOk,
           LoginError, InitialUnparsed, SyncOk, Step, IInv, TypeOK
  <1>2. i = logins /\ logins > 0 /\ logins \in Nat
    BY <1>1, OnlyLastMoves DEF IInv, Ended
  <1>3. mtx[i] \notin {"check", "connect", "badport"}
    BY <1>2 DEF IInv, RaisedInSession, OneSession
  <1>4. mtx'[i] \notin {"check", "connect"}
    BY <1>3 DEF Own, Check, Connect, Closing, Reset, Notify, Answer, LoginOk,
                LoginError, InitialUnparsed, SyncOk, Step, IInv, TypeOK
  <1>5. mtx'[i] \in {"login", "initial", "sync"} =>
          mtx[i] \in {"login", "initial", "sync"} /\ shutdown' = shutdown
    BY <1>3 DEF Own, Check, Connect, Closing, Reset, Notify, Answer, LoginOk,
                LoginError, InitialUnparsed, SyncOk, Step, IInv, TypeOK
  <1>6. \A j \in Logins : j # i => mtx[j] \in {"off", "done"}
    BY <1>2, OnlyLastMoves DEF IInv, Ended
  <1>7. RaisedInSession'
    BY <1>2, <1>4 DEF RaisedInSession
  <1>8. RaisedIsHeard'
    BY <1>1, <1>5, <1>6 DEF IInv, RaisedIsHeard
  <1> QED BY <1>7, <1>8

\* The CLI of a careful user raises the flag when the client is connected, and
\* spawns no thread while it waits.
LEMMA StepRaised == IInv /\ [Next]_vars => RaisedInSession' /\ RaisedIsHeard'
  <1> SUFFICES ASSUME IInv, [Next]_vars, ~careless', cli' \in {"raise", "join"}
               PROVE  RaisedInSession' /\ RaisedIsHeard'
    BY DEF RaisedInSession, RaisedIsHeard
  <1>1. ~careless /\ OneSession
    <2>1. ~careless
      BY DEF Next, Cli, Login, Leave, ExitOffline, Interrupt, Raise, Join, Own,
             Check, Connect, Closing, Reset, Notify, Answer, LoginOk, LoginError,
             InitialUnparsed, SyncOk, SyncError, Msg, BindMsg, BindMsgTwice,
             HandleMtx, vars, cliVars
    <2> QED BY <2>1 DEF IInv
  <1>2. CASE Leave \/ Interrupt
    <2>1. /\ cli' = "raise" /\ connected /\ UNCHANGED <<mtx, logins>>
      BY <1>2 DEF Leave, Interrupt
    <2>2. logins > 0 /\ mtx[logins] \notin {"check", "connect"}
      <3>1. logins \in Nat
        BY MatrixAssumption DEF IInv, TypeOK
      <3> QED BY <1>1, <2>1, <3>1 DEF OneSession
    <2> QED BY <2>1, <2>2 DEF RaisedInSession, RaisedIsHeard
  <1>3. CASE Raise
    <2>1. shutdown' /\ cli = "raise" /\ UNCHANGED <<mtx, logins>>
      BY <1>3 DEF Raise
    <2> QED BY <1>1, <2>1 DEF IInv, RaisedInSession, RaisedIsHeard
  <1>4. CASE Login \/ ExitOffline \/ Join
    BY <1>4 DEF Login, ExitOffline, Join
  <1>5. ASSUME NEW i \in Logins, Own(i) \/ Answer(i) \/ SyncOk(i)
        PROVE  RaisedInSession' /\ RaisedIsHeard'
    <2>1. cli' = cli /\ logins' = logins
      BY <1>5 DEF Own, Check, Connect, Closing, Reset, Notify, Answer, LoginOk,
                  LoginError, InitialUnparsed, SyncOk, Step, cliVars
    <2> QED BY <1>1, <1>5, <2>1, ThreadStepRaised
  <1>6. CASE UNCHANGED <<mtx, shutdown, logins, cli>>
    BY <1>1, <1>6 DEF IInv, RaisedInSession, RaisedIsHeard
  <1>7. ASSUME NEW i \in Logins, Msg(i) \/ SyncError(i)
        PROVE  UNCHANGED <<mtx, shutdown, logins, cli>>
    BY <1>7 DEF Msg, BindMsg, BindMsgTwice, HandleMtx, SyncError, vars, cliVars
  <1> QED BY <1>2, <1>3, <1>4, <1>5, <1>6, <1>7 DEF Next, Cli, vars, cliVars

\* Every step keeps it.
LEMMA StepIInv == IInv /\ [Next]_vars => IInv'
  BY StepType, StepSpawned, StepOneSession, StepRaised DEF IInv

-----------------------------------------------------------------------------
\* The flags, the threads and what they tell each other keep their types
\* (cli_matrix_thread.cpp:42-48).
THEOREM TypeCorrect == Spec => []TypeOK
  BY InitIInv, StepIInv, PTL DEF Spec, IInv

\* While the CLI waits for the session of a careful user to end, the flag that ends
\* it stays raised, whatever the session is doing (cli.cpp:545-549 and
\* cli_matrix_thread.cpp:968, 1003 and 1148).
THEOREM RaisedReaches == Spec => []RaisedIsHeard
  BY InitIInv, StepIInv, PTL DEF Spec, IInv

\* Sessions of a careful user never overlap, and none finds what an earlier one
\* has left on the wire (cli_matrix_thread.cpp:42-48).
THEOREM SessionsFollow == Spec => []SessionsApart
  <1>1. IInv => SessionsApart
    <2> SUFFICES ASSUME IInv, ~careless, NEW i \in Logins,
                        mtx[i] \notin {"off", "done"}
                 PROVE  /\ i = logins
                        /\ \A j \in Logins \ {i} : Ended(j)
                        /\ mtx[i] \in {"check", "connect"} =>
                             ~connected /\ wire = <<>>
      BY DEF SessionsApart
    <2>1. i = logins /\ logins > 0 /\ logins \in Nat /\ OneSession
      BY OnlyLastMoves DEF IInv, Ended
    <2>2. \A j \in Logins \ {i} : Ended(j)
      BY <2>1, OnlyLastMoves DEF IInv
    <2> QED BY <2>1, <2>2 DEF OneSession
  <1> QED BY <1>1, InitIInv, StepIInv, PTL DEF Spec

\* The msg thread of a careful user's session is told of the end last, and only
\* when the session is over (cli_matrix_thread.cpp:1150-1153).
THEOREM EndIsToldLast == Spec => []ShutdownIsLast
  <1>1. IInv => ShutdownIsLast
    <2> SUFFICES ASSUME IInv, ~careless, NEW n \in 1 .. Len(wire),
                        wire[n] = "SHUTDOWN"
                 PROVE  n = Len(wire) /\ mtx[logins] = "done"
      BY DEF ShutdownIsLast
    <2>1. OneSession /\ logins \in Nat /\ wire # <<>>
      BY MatrixAssumption DEF IInv, TypeOK
    <2>2. logins > 0
      BY <2>1 DEF OneSession
    <2>3. mtx[logins] = "done"
      BY <2>1, <2>2 DEF OneSession, WireOpen, WireOver
    <2>4. WireOver
      BY <2>1, <2>2, <2>3 DEF OneSession
    <2> QED BY <2>3, <2>4 DEF WireOpen, WireOver
  <1> QED BY <1>1, InitIInv, StepIInv, PTL DEF Spec
=============================================================================
