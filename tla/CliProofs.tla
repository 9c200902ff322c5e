------------------------------ MODULE CliProofs ------------------------------
(***************************************************************************)
(* Who reports to the listener and whose key a matrix session is saved     *)
(* with, for any number of seeds, accounts, wallets, logins and restarts.  *)
(*                                                                         *)
(* Outside a switch only the active wallet may go on syncing, and only it  *)
(* may be in the middle of a report (OthersQuiet); the key of a session,   *)
(* and of every file that is whole, is one its account has been logged in  *)
(* with (KeysAreUsed).                                                     *)
(***************************************************************************)
EXTENDS Cli, TLAPS

\* At most the active wallet syncs, and during a switch the one that will be;
\* when a switch is over all others have made their last report, for the
\* destructor of the old wallet waits for its thread (monero_util.cpp:15-26).
OthersQuiet ==
  /\ cli = "switch" => syncing \subseteq {wallet, Len(seed)}
  /\ cli \notin {"switch", "ended", "dead"} => syncing \subseteq {wallet}
  /\ cli \notin {"switch", "stop", "ended", "dead"} =>
       \A w \in Wallets : w # wallet => todo[w] = <<>>

\* Keys of sessions and files are keys that their accounts have been logged in
\* with (cli.cpp:563).
KeysAreUsed ==
  /\ session # None => session.key \in keysUsed[session.account]
  /\ \A a \in Accounts : file[a] \in Files => file[a].key \in keysUsed[a]

\* The inductive invariant.
IInv == TypeOK /\ OthersQuiet /\ KeysAreUsed /\ LockedByOtherWallet

-----------------------------------------------------------------------------
\* The fields of a report.
LEMMA FieldsAre ==
  /\ Fields = {"height", "start_height"}
  /\ Len(WriteOrder) = 2 /\ Len(ReadOrder) = 2
  /\ ReadOrder[1] \in Fields /\ ReadOrder[2] \in Fields
  <1>1. Len(WriteOrder) = 2 /\ Len(ReadOrder) = 2
    BY DEF WriteOrder, ReadOrder
  <1>2. DOMAIN WriteOrder = {1, 2}
    BY DEF WriteOrder
  <1>3. Fields = {"height", "start_height"}
    BY <1>2 DEF Fields, ToSet, WriteOrder
  <1> QED BY <1>1, <1>3 DEF ReadOrder

\* What is left to write begins with a field.
LEMMA TodoFields ==
  ASSUME NEW t \in {WriteOrder, Tail(WriteOrder), <<>>}, t # <<>>
  PROVE  Head(t) \in Fields /\ Tail(t) \in {WriteOrder, Tail(WriteOrder), <<>>}
  <1>1. Tail(WriteOrder) = <<"start_height">>
    BY DEF WriteOrder
  <1>2. CASE t = WriteOrder
    BY <1>2, FieldsAre DEF WriteOrder
  <1>3. CASE t = Tail(WriteOrder)
    <2>1. t = <<"start_height">>
      BY <1>1, <1>3
    <2>2. Head(t) = "start_height" /\ Tail(t) = <<>>
      BY <2>1
    <2> QED BY <2>2, FieldsAre
  <1> QED BY <1>2, <1>3

\* The invariant holds initially: there is no report, session or file yet.
LEMMA InitIInv == Init => IInv
  <1> SUFFICES ASSUME Init PROVE IInv
    OBVIOUS
  <1>1. todo \in [Wallets -> {WriteOrder, Tail(WriteOrder), <<>>}]
    BY DEF Init
  <1>2. listener \in [Fields -> Reports] /\ report \in [Wallets -> {0, 1}]
    BY DEF Init, Reports
  <1>3. seed \in Seq(Seeds) /\ Len(seed) = 0 /\ shown \in Seq(Reports) /\ Len(shown) = 0
    BY DEF Init
  <1>4. /\ wallet \in 0 .. Len(seed)
        /\ Len(seed) <= MaxWallets /\ Len(shown) <= Len(ReadOrder)
        /\ logins \in 0 .. MaxLogins /\ starts \in 0 .. MaxStarts
    BY <1>3, CliAssumption, FieldsAre DEF Init
  <1>5. /\ file \in [Accounts -> Files \cup {None, Torn}]
        /\ keysUsed \in [Accounts -> SUBSET Seeds]
    BY DEF Init
  <1>6. TypeOK
    BY <1>1, <1>2, <1>3, <1>4, <1>5 DEF Init, TypeOK
  <1>7. OthersQuiet /\ KeysAreUsed /\ LockedByOtherWallet
    BY CliAssumption DEF Init, OthersQuiet, KeysAreUsed, LockedByOtherWallet
  <1> QED BY <1>6, <1>7 DEF IInv

-----------------------------------------------------------------------------
\* What is saved, whole.
LEMMA SavedIsFile ==
  ASSUME TypeOK, session # None
  PROVE  [key |-> session.key, holds |-> memory] \in Files
  BY DEF TypeOK, Files

\* What a process leaves in the files of an account is a file, nothing or a part.
LEMMA LeftIsFile ==
  ASSUME TypeOK, NEW a \in Accounts
  PROVE  Left(a) \subseteq Files \cup {None, Torn}
  <1>1. CASE session # None /\ session.at = "writing" /\ session.account = a
    BY <1>1, SavedIsFile DEF Left
  <1>2. CASE ~(session # None /\ session.at = "writing" /\ session.account = a)
    BY <1>2 DEF Left, TypeOK
  <1> QED BY <1>1, <1>2

\* The variables keep their types.
LEMMA StepType == TypeOK /\ [Next]_vars => TypeOK'
  <1> SUFFICES ASSUME TypeOK, [Next]_vars PROVE TypeOK'
    OBVIOUS
  <1> USE CliAssumption DEF TypeOK
  <1>1. CASE UNCHANGED vars
    BY <1>1 DEF vars, walletVars, syncVars, sessionVars
  <1>2. ASSUME NEW s \in Seeds, StartSyncing(s)
        PROVE  TypeOK'
    <2>1. seed' = Append(seed, s) /\ Len(seed) < MaxWallets
      BY <1>2 DEF StartSyncing
    <2>2. seed' \in Seq(Seeds) /\ Len(seed') = Len(seed) + 1 /\ Len(seed) \in Nat
      BY <2>1
    <2>3. wallet \in 0 .. Len(seed')
      BY <2>2
    <2>4. syncing' \subseteq 1 .. Len(seed')
      BY <1>2, <2>2 DEF StartSyncing
    <2> QED BY <1>2, <2>1, <2>2, <2>3, <2>4 DEF StartSyncing, syncVars, sessionVars
  <1>3. CASE Replace
    <2>1. wallet' \in 0 .. Len(seed)
      BY <1>3 DEF Replace
    <2> QED BY <1>3, <2>1 DEF Replace, syncVars, sessionVars
  <1>4. CASE Stopped \/ Balance \/ Disconnect \/ Exit \/ MainReturns \/ End \/ Killed
    BY <1>4 DEF Stopped, Balance, Disconnect, Exit, MainReturns, End, Killed,
                walletVars, syncVars, sessionVars
  <1>5. ASSUME NEW w \in Wallets, Report(w)
        PROVE  TypeOK'
    <2>1. /\ todo' = [todo EXCEPT ![w] = WriteOrder]
          /\ report' = [report EXCEPT ![w] = 1 - @]
          /\ UNCHANGED <<cli, walletVars, listener, shown, sessionVars, starts>>
      BY <1>5 DEF Report
    <2>2. todo' \in [Wallets -> {WriteOrder, Tail(WriteOrder), <<>>}]
      BY <2>1
    <2>3. report' \in [Wallets -> {0, 1}]
      BY <2>1
    <2> QED BY <2>1, <2>2, <2>3 DEF walletVars, sessionVars
  <1>6. ASSUME NEW w \in Wallets, Write(w)
        PROVE  TypeOK'
    <2>1. /\ todo' = [todo EXCEPT ![w] = Tail(@)] /\ todo[w] # <<>>
          /\ listener' = [listener EXCEPT ![Head(todo[w])] = <<w, report[w]>>]
          /\ cli' \in {cli, "dead"}
          /\ UNCHANGED <<walletVars, report, shown, sessionVars, starts>>
      BY <1>6 DEF Write
    <2>2. todo' \in [Wallets -> {WriteOrder, Tail(WriteOrder), <<>>}]
      BY <2>1, TodoFields
    <2>3. listener' \in [Fields -> Reports]
      <3>1. Head(todo[w]) \in Fields
        BY <2>1, TodoFields
      <3>2. <<w, report[w]>> \in Reports
        BY DEF Reports
      <3> QED BY <2>1, <3>1, <3>2
    <2> QED BY <2>1, <2>2, <2>3 DEF walletVars, sessionVars
  <1>7. CASE ShowField \/ Shown
    <2>1. shown' \in Seq(Reports) /\ Len(shown') <= Len(ReadOrder)
      <3>1. CASE ShowField
        <4> DEFINE x == listener[ReadOrder[Len(shown) + 1]]
        <4>1. shown' = Append(shown, x) /\ Len(shown) < 2 /\ Len(shown) \in Nat
          BY <3>1, FieldsAre DEF ShowField
        <4>2. Len(shown) + 1 \in {1, 2}
          BY <4>1
        <4>3. ReadOrder[Len(shown) + 1] \in Fields
          BY <4>2, FieldsAre
        <4>4. x \in Reports
          BY <4>3
        <4> HIDE DEF x
        <4> QED BY <4>1, <4>4, FieldsAre
      <3>2. CASE Shown
        BY <3>2, FieldsAre DEF Shown
      <3> QED BY <1>7, <3>1, <3>2
    <2> QED BY <1>7, <2>1 DEF ShowField, Shown, walletVars, syncVars, sessionVars
  <1>8. ASSUME NEW a \in Accounts, Matrix(a)
        PROVE  TypeOK'
    <2>1. CASE wallet = 0
      BY <1>8, <2>1 DEF Matrix, walletVars, syncVars
    <2>2. CASE wallet # 0
      <3>1. Active \in Seeds
        BY <2>2 DEF Active
      <3>2. /\ session' = [account |-> a, key |-> Active, at |-> "start"]
            /\ keysUsed' = [keysUsed EXCEPT ![a] = @ \cup {Active}]
        BY <1>8, <2>2 DEF Matrix
      <3> QED BY <1>8, <2>2, <3>1, <3>2 DEF Matrix, walletVars, syncVars
    <2> QED BY <2>1, <2>2
  <1>9. CASE Open
    <2> DEFINE f == file[session.account]
    <2>1. /\ session # None
          /\ UNCHANGED <<walletVars, syncVars, shown, file, keysUsed, logins, starts>>
      BY <1>9 DEF Open
    <2>2. CASE f = Torn \/ (f # None /\ f.key # session.key)
      <3>1. /\ cli' = "dead" /\ UNCHANGED <<session, memory>>
            /\ locked' \in BOOLEAN
        BY <1>9, <2>2 DEF Open
      <3> QED BY <2>1, <3>1 DEF walletVars, syncVars
    <2>3. CASE ~(f = Torn \/ (f # None /\ f.key # session.key))
      <3>1. /\ session' = [session EXCEPT !.at = "open"]
            /\ memory' = memory \cup {session.account}
                           \cup (IF f = None THEN {} ELSE f.holds)
            /\ UNCHANGED <<cli, locked>>
        BY <1>9, <2>3 DEF Open
      <3>2. session.account \in Accounts
        BY <2>1
      <3>3. f \in Files \cup {None}
        BY <2>3, <3>2
      <3>4. memory' \subseteq Accounts
        BY <3>1, <3>2, <3>3 DEF Files
      <3>5. session' \in [account : Accounts, key : Seeds,
                          at : {"start", "open", "closed", "writing"}]
        BY <2>1, <3>1
      <3> QED BY <2>1, <3>1, <3>4, <3>5 DEF walletVars, syncVars
    <2> QED BY <2>2, <2>3
  <1>10. CASE Close
    BY <1>10 DEF Close, walletVars, syncVars
  <1>11. CASE Truncate
    <2>1. CASE file' = [file EXCEPT ![session.account] = None]
               /\ session' = [session EXCEPT !.at = "writing"] /\ UNCHANGED cli
      BY <1>11, <2>1 DEF Truncate, walletVars, syncVars
    <2>2. CASE SessionOver /\ UNCHANGED file
      BY <1>11, <2>2 DEF Truncate, SessionOver, walletVars, syncVars
    <2> QED BY <1>11, <2>1, <2>2 DEF Truncate
  <1>12. CASE Save
    <2>1. file' \in [Accounts -> Files \cup {None, Torn}]
      BY <1>12, SavedIsFile DEF Save
    <2> QED BY <1>12, <2>1 DEF Save, SessionOver, walletVars, syncVars
  <1>13. CASE Start
    <2>1. todo' \in [Wallets -> {WriteOrder, Tail(WriteOrder), <<>>}]
      BY <1>13 DEF Start
    <2>2. listener' \in [Fields -> Reports] /\ report' \in [Wallets -> {0, 1}]
      BY <1>13 DEF Start, Reports
    <2>3. /\ seed' \in Seq(Seeds) /\ Len(seed') = 0
          /\ shown' \in Seq(Reports) /\ Len(shown') = 0
      BY <1>13 DEF Start
    <2>4. file' \in [Accounts -> Files \cup {None, Torn}]
      BY <1>13, LeftIsFile DEF Start
    <2> QED BY <1>13, <2>1, <2>2, <2>3, <2>4, FieldsAre DEF Start
  <1> QED BY <1>1, <1>2, <1>3, <1>4, <1>5, <1>6, <1>7, <1>8, <1>9, <1>10, <1>11, <1>12,
             <1>13
          DEF Next, CreateWallet, SwitchUser

\* Who may report.
LEMMA StepQuiet == TypeOK /\ OthersQuiet /\ [Next]_vars => OthersQuiet'
  <1> SUFFICES ASSUME TypeOK, OthersQuiet, [Next]_vars PROVE OthersQuiet'
    OBVIOUS
  <1> USE DEF OthersQuiet
  <1>1. CASE UNCHANGED <<cli, wallet, seed, syncing, todo>>
    BY <1>1
  <1>2. ASSUME NEW s \in Seeds, StartSyncing(s)
        PROVE  OthersQuiet'
    <2>1. Len(seed') = Len(seed) + 1
      BY <1>2 DEF StartSyncing, TypeOK
    <2> QED BY <1>2, <2>1 DEF StartSyncing
  <1>3. CASE Replace
    BY <1>3 DEF Replace, syncVars
  <1>4. CASE Stopped
    BY <1>4 DEF Stopped, walletVars, syncVars
  <1>5. ASSUME NEW w \in Wallets, Report(w)
        PROVE  OthersQuiet'
    <2>1. /\ \A v \in Wallets : v # w => todo'[v] = todo[v]
          /\ w \in syncing
          /\ UNCHANGED <<cli, wallet, seed, syncing>>
      BY <1>5 DEF Report, TypeOK, walletVars
    <2> QED BY <2>1
  <1>6. ASSUME NEW w \in Wallets, Write(w)
        PROVE  OthersQuiet'
    <2>1. /\ \A v \in Wallets : v # w => todo'[v] = todo[v]
          /\ todo[w] # <<>> /\ cli' \in {cli, "dead"}
          /\ UNCHANGED <<wallet, seed, syncing>>
      BY <1>6 DEF Write, TypeOK, walletVars
    <2> QED BY <2>1
  <1>7. CASE Balance \/ ShowField \/ Shown \/ Disconnect \/ Exit \/ MainReturns \/ End
             \/ Killed
    BY <1>7 DEF Balance, ShowField, Shown, Disconnect, Exit, MainReturns, End, Killed,
                walletVars, syncVars
  <1>8. CASE Open \/ Close \/ Truncate \/ Save \/ \E a \in Accounts : Matrix(a)
    BY <1>8 DEF Open, Close, Truncate, Save, SessionOver, Matrix, walletVars, syncVars
  <1>9. CASE Start
    BY <1>9 DEF Start
  <1> QED BY <1>1, <1>2, <1>3, <1>4, <1>5, <1>6, <1>7, <1>8, <1>9
          DEF Next, CreateWallet, SwitchUser, vars, walletVars, syncVars

\* Whose key a session and a file have, and why a file cannot be read.
LEMMA StepKeys ==
  TypeOK /\ KeysAreUsed /\ LockedByOtherWallet /\ [Next]_vars =>
    KeysAreUsed' /\ LockedByOtherWallet'
  <1> SUFFICES ASSUME TypeOK, KeysAreUsed, LockedByOtherWallet, [Next]_vars
               PROVE  KeysAreUsed' /\ LockedByOtherWallet'
    OBVIOUS
  <1> USE DEF KeysAreUsed, LockedByOtherWallet
  <1>1. CASE UNCHANGED <<session, file, keysUsed, locked>>
    BY <1>1
  <1>2. ASSUME NEW a \in Accounts, Matrix(a)
        PROVE  KeysAreUsed' /\ LockedByOtherWallet'
    <2>1. file' = file /\ locked' = locked
      BY <1>2 DEF Matrix
    <2>2. CASE wallet = 0
      BY <1>2, <2>1, <2>2 DEF Matrix
    <2>3. CASE wallet # 0
      <3>1. /\ session' = [account |-> a, key |-> Active, at |-> "start"]
            /\ keysUsed' = [keysUsed EXCEPT ![a] = @ \cup {Active}]
        BY <1>2, <2>3 DEF Matrix
      <3>2. /\ \A b \in Accounts : keysUsed[b] \subseteq keysUsed'[b]
            /\ Active \in keysUsed'[a]
        BY <3>1 DEF TypeOK
      <3> QED BY <2>1, <3>1, <3>2
    <2> QED BY <2>2, <2>3
  <1>3. CASE Open
    <2> DEFINE f == file[session.account]
    <2>1. session # None /\ file' = file /\ keysUsed' = keysUsed
      BY <1>3 DEF Open
    <2>2. CASE f = Torn \/ (f # None /\ f.key # session.key)
      <3>1. session' = session /\ locked' = (locked \/ f # Torn)
        BY <1>3, <2>2 DEF Open
      <3>2. CASE f = Torn
        <4>1. locked' => locked
          BY <3>1, <3>2, Zenon
        <4> QED BY <2>1, <3>1, <4>1
      <3>3. CASE f # Torn
        <4>1. session.account \in Accounts /\ session.key \in Seeds
          BY <2>1 DEF TypeOK
        <4>2. f \in Files
          BY <2>2, <3>3, <4>1 DEF TypeOK
        <4>3. f.key \in Seeds /\ f.key \in keysUsed[session.account]
          BY <4>1, <4>2 DEF Files
        <4>4. {session.key, f.key} \subseteq keysUsed[session.account]
          BY <2>1, <4>3
        <4> HIDE DEF f
        <4>5. \E a \in Accounts, s, t \in Seeds :
                s # t /\ {s, t} \subseteq keysUsed'[a]
          BY <2>1, <2>2, <3>3, <4>1, <4>3, <4>4
        <4> QED BY <2>1, <3>1, <4>5
      <3> QED BY <3>2, <3>3
    <2>3. CASE ~(f = Torn \/ (f # None /\ f.key # session.key))
      <3>1. session' = [session EXCEPT !.at = "open"] /\ locked' = locked
        BY <1>3, <2>3 DEF Open
      <3>2. session'.key = session.key /\ session'.account = session.account
        BY <2>1, <3>1 DEF TypeOK
      <3> QED BY <2>1, <3>1, <3>2
    <2> QED BY <2>2, <2>3
  <1>4. ASSUME UNCHANGED <<keysUsed, locked>>,
               session' # None =>
                 session # None /\ session'.key = session.key
                   /\ session'.account = session.account,
               \A a \in Accounts :
                 \/ file'[a] \in {file[a], None, Torn}
                 \/ /\ session # None /\ session.account = a
                    /\ file'[a].key = session.key
        PROVE  KeysAreUsed' /\ LockedByOtherWallet'
    <2>1. \A a \in Accounts : file'[a] \in Files => file'[a].key \in keysUsed[a]
      BY <1>4, CliAssumption
    <2> QED BY <1>4, <2>1
  <1>5. CASE Close
    <2>1. session' = [session EXCEPT !.at = "closed"] /\ session # None
      BY <1>5 DEF Close
    <2>2. session'.key = session.key /\ session'.account = session.account
      BY <2>1 DEF TypeOK
    <2> QED BY <1>4, <1>5, <2>1, <2>2 DEF Close
  <1>6. CASE Truncate
    <2>1. session # None /\ UNCHANGED <<keysUsed, locked>>
      BY <1>6 DEF Truncate
    <2>2. CASE file' = [file EXCEPT ![session.account] = None]
               /\ session' = [session EXCEPT !.at = "writing"]
      <3>1. session'.key = session.key /\ session'.account = session.account
        BY <2>1, <2>2 DEF TypeOK
      <3>2. \A a \in Accounts : file'[a] \in {file[a], None}
        BY <2>2 DEF TypeOK
      <3> QED BY <1>4, <2>1, <3>1, <3>2
    <2>3. CASE SessionOver /\ UNCHANGED file
      BY <1>4, <2>1, <2>3 DEF SessionOver
    <2> QED BY <1>6, <2>2, <2>3 DEF Truncate
  <1>7. CASE Save
    <2>1. /\ session # None /\ session' = None
          /\ file' = [file EXCEPT ![session.account] =
                        [key |-> session.key, holds |-> memory]]
          /\ UNCHANGED <<keysUsed, locked>>
      BY <1>7 DEF Save, SessionOver
    <2>2. \A a \in Accounts :
            \/ file'[a] = file[a]
            \/ a = session.account /\ file'[a].key = session.key
      BY <2>1 DEF TypeOK
    <2> QED BY <1>4, <2>1, <2>2
  <1>8. CASE Start
    <2>1. session' = None /\ UNCHANGED <<keysUsed, locked>>
      BY <1>8 DEF Start
    <2>2. ASSUME NEW a \in Accounts
          PROVE  \/ file'[a] \in {file[a], None, Torn}
                 \/ /\ session # None /\ session.account = a
                    /\ file'[a].key = session.key
      <3>1. file'[a] \in Left(a)
        BY <1>8 DEF Start
      <3> QED BY <3>1 DEF Left
    <2> QED BY <1>4, <2>1, <2>2
  <1>9. ASSUME Next, ~Open, ~Close, ~Truncate, ~Save, ~Start,
               \A a \in Accounts : ~Matrix(a)
        PROVE  UNCHANGED <<session, file, keysUsed, locked>>
    BY <1>9 DEF Next, CreateWallet, SwitchUser, StartSyncing, Replace, Stopped,
                Report, Write, Balance, ShowField, Shown, Disconnect, Exit,
                MainReturns, End, Killed, sessionVars
  <1> QED BY <1>1, <1>2, <1>3, <1>5, <1>6, <1>7, <1>8, <1>9 DEF vars, sessionVars

\* Every step keeps it.
LEMMA StepIInv == IInv /\ [Next]_vars => IInv'
  BY StepType, StepQuiet, StepKeys DEF IInv

-----------------------------------------------------------------------------
\* The variables keep their types, over switches, sessions and restarts.
THEOREM TypeCorrect == Spec => []TypeOK
  BY InitIInv, StepIInv, PTL DEF Spec, IInv

\* Only who has logged in to an account with two wallets finds its files refused
\* for their key, whichever wallets were active when its sessions were saved, and
\* whatever saves were cut short (cli_matrix_thread.cpp:1125-1137 and 1158-1167).
THEOREM FilesStayReadable == Spec => []LockedByOtherWallet
  BY InitIInv, StepIInv, PTL DEF Spec, IInv

\* Outside a switch the listener is written by the sync thread of the active
\* wallet only, or made anew (monero_util.cpp:15-26).
THEOREM ReportsAreActive == Spec => OnlyActiveReports
  <1>1. IInv /\ [Next]_vars =>
          [cli \notin {"switch", "stop"} =>
             \A f \in Fields : listener'[f] # listener[f] =>
               \/ listener'[f] = <<0, 0>>
               \/ wallet # 0 /\ listener'[f] = <<wallet, report[wallet]>>]_vars
    <2> SUFFICES ASSUME IInv, [Next]_vars, cli \notin {"switch", "stop"},
                        NEW f \in Fields, listener'[f] # listener[f]
                 PROVE  \/ listener'[f] = <<0, 0>>
                        \/ wallet # 0 /\ listener'[f] = <<wallet, report[wallet]>>
      OBVIOUS
    <2>1. ASSUME NEW w \in Wallets, Write(w)
          PROVE  wallet # 0 /\ listener'[f] = <<wallet, report[wallet]>>
      <3>1. w = wallet
        BY <2>1 DEF Write, Running, IInv, OthersQuiet
      <3>2. listener' = [listener EXCEPT ![Head(todo[w])] = <<w, report[w]>>]
        BY <2>1 DEF Write
      <3> QED BY <3>1, <3>2 DEF IInv, TypeOK, Wallets
    <2>2. CASE Start
      BY <2>2 DEF Start
    <2>3. ASSUME Next, ~Start, \A w \in Wallets : ~Write(w)
          PROVE  UNCHANGED listener
      BY <2>3 DEF Next, CreateWallet, SwitchUser, StartSyncing, Replace, Stopped,
                  Report, Balance, ShowField, Shown, Matrix, Open, Disconnect,
                  Close, Truncate, Save, Exit, MainReturns, End, Killed, syncVars
    <2> QED BY <2>1, <2>2, <2>3 DEF vars, syncVars
  <1> QED BY <1>1, InitIInv, StepIInv, PTL DEF Spec, OnlyActiveReports
=============================================================================
