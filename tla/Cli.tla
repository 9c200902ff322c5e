--------------------------------- MODULE Cli ---------------------------------
(***************************************************************************)
(* The command line client around the monero wallet of its user (cli.cpp,  *)
(* monero_util.cpp): which wallet is active, whose sync thread reports to  *)
(* the one WalletListener there is, and with which wallet's key the matrix *)
(* session of an account is kept.                                          *)
(*                                                                         *)
(* A wallet that is made with a connection to a monero node has a thread   *)
(* of its own that reports its progress over and over, until the wallet is *)
(* destroyed: its destructor waits for the thread.  A report is written    *)
(* field by field and without a lock, and stands for itself as <<w, n>>:   *)
(* the n-th of wallet w, n modulo 2.  The wallets of a run are numbered,   *)
(* and a seed stands for the keys it generates.                            *)
(*                                                                         *)
(* The two files of an account are written one after the other when a      *)
(* session ends, each emptied first, and count as one here: the client may *)
(* be gone before all of it is written.  Sessions do not overlap; what     *)
(* users meet whose sessions do is in MatrixClient.                        *)
(***************************************************************************)
EXTENDS Naturals, Sequences, SequencesExt

CONSTANTS
  Seeds,       \* mnemonic seeds
  Accounts,    \* matrix accounts: user and host
  None,        \* no session; no file, or an empty one
  Torn,        \* a file that breaks off before its end
  MaxWallets,  \* bound on the wallets of one run of the client
  MaxLogins,   \* bound on the "matrix" commands
  MaxStarts    \* bound on the restarts of the client

\* What files hold when all of it is there.
Files == [key : Seeds, holds : SUBSET Accounts]

ASSUME CliAssumption ==
  /\ MaxWallets \in Nat /\ MaxLogins \in Nat /\ MaxStarts \in Nat
  /\ None \notin Files /\ Torn \notin Files /\ None # Torn

Wallets == 1 .. MaxWallets
Reports == {<<0, 0>>} \cup (Wallets \X {0, 1})

\* The first two fields stand for all: on_sync_progress writes them in this
\* order, and show_wallet_balance reads them in the other.
WriteOrder == <<"height", "start_height">>
ReadOrder  == <<"start_height", "height">>
Fields     == ToSet(WriteOrder)

VARIABLES
  cli,       \* where the CLI is
  wallet,    \* g_wallet, 0 for none
  seed,      \* the seeds of the wallets made so far
  syncing,   \* the wallets whose threads go on reporting
  todo,      \* the fields of wallet w's report that are still to be written
  report,    \* the last report of wallet w
  listener,  \* the report each field of the listener is of
  shown,     \* the reports that what "balance" has shown so far is of
  session,   \* the matrix session: whose it is, its key, how far it has got
  memory,    \* the accounts g_storage has anything of
  file,      \* the files of each account: their key, and what they are of
  keysUsed,  \* history: the keys each account has been logged in with
  locked,    \* history: whether the files of an account had another key
  logins, starts

walletVars  == <<wallet, seed, syncing>>
syncVars    == <<todo, report, listener>>
sessionVars == <<session, memory, file, keysUsed, locked, logins>>
vars == <<cli, walletVars, syncVars, shown, sessionVars, starts>>

Running == cli \notin {"gone", "ended", "dead"}
Active  == seed[wallet]

-----------------------------------------------------------------------------
(* "new" and "user": create_wallet and switch_user.                        *)

\* start_syncing: the wallet of seed s has been made, and starts syncing if it has
\* a connection to a monero node.
StartSyncing(s) ==
  /\ cli = "prompt" /\ Len(seed) < MaxWallets
  /\ seed' = Append(seed, s)
  /\ syncing' \in {syncing, syncing \cup {Len(seed) + 1}}
  /\ cli' = "switch"
  /\ UNCHANGED <<wallet, syncVars, shown, sessionVars, starts>>

\* "new": of a seed that has not been used.
CreateWallet == \E s \in Seeds \ ToSet(seed) : StartSyncing(s)

\* "user <mnemonic>": of any seed.
SwitchUser == \E s \in Seeds : StartSyncing(s)

\* Mutant: the wallet that is replaced is not destroyed.
ReplaceReleased ==
  /\ cli = "switch"
  /\ wallet' = Len(seed)
  /\ cli' = "stop"
  /\ UNCHANGED <<seed, syncing, syncVars, shown, sessionVars, starts>>

\* The assignment to g_wallet: the destructor of the old one stops its thread,
Replace ==
  /\ cli = "switch"
  /\ wallet' = Len(seed)
  /\ syncing' = syncing \ {wallet}
  /\ cli' = "stop"
  /\ UNCHANGED <<seed, syncVars, shown, sessionVars, starts>>

\* and waits for it to have made its last report.
Stopped ==
  /\ cli = "stop"
  /\ \A w \in Wallets \ {wallet} : todo[w] = <<>>
  /\ cli' = "prompt"
  /\ UNCHANGED <<walletVars, syncVars, shown, sessionVars, starts>>

-----------------------------------------------------------------------------
(* The sync threads, and "balance".                                        *)

\* Mutant: one of the fields is not written.
ReportPartial(w) ==
  /\ Running \/ cli = "gone"
  /\ w \in syncing /\ todo[w] = <<>>
  /\ todo' = [todo EXCEPT ![w] = <<"height">>]
  /\ report' = [report EXCEPT ![w] = 1 - @]
  /\ UNCHANGED <<cli, walletVars, listener, shown, sessionVars, starts>>

Report(w) ==
  /\ Running \/ cli = "gone"
  /\ w \in syncing /\ todo[w] = <<>>
  /\ todo' = [todo EXCEPT ![w] = WriteOrder]
  /\ report' = [report EXCEPT ![w] = 1 - @]
  /\ UNCHANGED <<cli, walletVars, listener, shown, sessionVars, starts>>

\* on_sync_progress; after main's end the listener it writes to is no more, and
\* the process may die of that or not.
Write(w) ==
  /\ Running \/ cli = "gone"
  /\ todo[w] # <<>>
  /\ todo' = [todo EXCEPT ![w] = Tail(@)]
  /\ listener' = [listener EXCEPT ![Head(todo[w])] = <<w, report[w]>>]
  /\ cli' \in {cli} \cup (IF Running THEN {} ELSE {"dead"})
  /\ UNCHANGED <<walletVars, report, shown, sessionVars, starts>>

\* "balance", when there is a wallet.
Balance ==
  /\ cli = "prompt" /\ wallet # 0
  /\ cli' = "balance"
  /\ UNCHANGED <<walletVars, syncVars, shown, sessionVars, starts>>

ShowField ==
  /\ cli = "balance" /\ Len(shown) < Len(ReadOrder)
  /\ shown' = Append(shown, listener[ReadOrder[Len(shown) + 1]])
  /\ UNCHANGED <<cli, walletVars, syncVars, sessionVars, starts>>

Shown ==
  /\ cli = "balance" /\ Len(shown) = Len(ReadOrder)
  /\ shown' = <<>>
  /\ cli' = "prompt"
  /\ UNCHANGED <<walletVars, syncVars, sessionVars, starts>>

-----------------------------------------------------------------------------
(* The matrix session of an account.                                       *)

\* "matrix <host> <user> <password>": the key is copied here.  The command
\* warns of a missing wallet, and goes on to use it.
Matrix(a) ==
  /\ cli = "prompt" /\ session = None /\ logins < MaxLogins
  /\ IF wallet = 0
     THEN cli' = "dead" /\ UNCHANGED <<session, keysUsed>>
     ELSE /\ session' = [account |-> a, key |-> Active, at |-> "start"]
          /\ keysUsed' = [keysUsed EXCEPT ![a] = @ \cup {Active}]
          /\ UNCHANGED cli
  /\ logins' = logins + 1
  /\ UNCHANGED <<walletVars, syncVars, shown, memory, file, locked, starts>>

\* The start of matrix_thread, until g_matrix_connected is raised: g_storage keeps
\* what it has and takes over what is in the files; files of another key, or that
\* cannot be parsed, make it throw.
Open ==
  /\ Running /\ session # None /\ session.at = "start"
  /\ LET f == file[session.account]
     IN  IF f = Torn \/ (f # None /\ f.key # session.key)
         THEN /\ cli' = "dead" /\ locked' = (locked \/ f # Torn)
              /\ UNCHANGED <<session, memory>>
         ELSE /\ session' = [session EXCEPT !.at = "open"]
              /\ memory' = memory \cup {session.account}
                             \cup (IF f = None THEN {} ELSE f.holds)
              /\ UNCHANGED <<cli, locked>>
  /\ UNCHANGED <<walletVars, syncVars, shown, file, keysUsed, logins, starts>>

\* "matrix disconnect"; the CLI waits until the session has been saved.
Disconnect ==
  /\ cli = "prompt" /\ session # None /\ session.at = "open"
  /\ cli' = "join"
  /\ UNCHANGED <<walletVars, syncVars, shown, sessionVars, starts>>

\* The end of matrix_thread, on demand or after an error, also when main has
\* returned already: g_matrix_connected is lowered,
Close ==
  /\ Running \/ cli = "gone"
  /\ session # None /\ session.at = "open"
  /\ session' = [session EXCEPT !.at = "closed"]
  /\ UNCHANGED <<cli, walletVars, syncVars, shown, memory, file, keysUsed, locked,
                 logins, starts>>

\* the thread has ended,
SessionOver ==
  /\ session' = None
  /\ cli' = IF cli = "join" THEN "prompt" ELSE cli

\* the files are opened, which empties them, or cannot be,
Truncate ==
  /\ Running \/ cli = "gone"
  /\ session # None /\ session.at = "closed"
  /\ \/ /\ file' = [file EXCEPT ![session.account] = None]
        /\ session' = [session EXCEPT !.at = "writing"]
        /\ UNCHANGED cli
     \/ SessionOver /\ UNCHANGED file
  /\ UNCHANGED <<walletVars, syncVars, shown, memory, keysUsed, locked, logins,
                 starts>>

\* Mutant: the files are written with the key of the wallet that is active.
SaveActiveKey ==
  /\ Running \/ cli = "gone"
  /\ session # None /\ session.at = "writing"
  /\ file' = [file EXCEPT ![session.account] = [key |-> Active, holds |-> memory]]
  /\ SessionOver
  /\ UNCHANGED <<walletVars, syncVars, shown, memory, keysUsed, locked, logins,
                 starts>>

\* and what was in memory is written with the key of the login.
Save ==
  /\ Running \/ cli = "gone"
  /\ session # None /\ session.at = "writing"
  /\ file' = [file EXCEPT ![session.account] =
                [key |-> session.key, holds |-> memory]]
  /\ SessionOver
  /\ UNCHANGED <<walletVars, syncVars, shown, memory, keysUsed, locked, logins,
                 starts>>

-----------------------------------------------------------------------------
(* The end and the start of the process.                                   *)

\* "exit": graceful_exit releases g_wallet, which does not destroy it, and waits
\* if g_matrix_connected is up: not for a session that starts or is being saved.
\* Then main returns, and its listener is gone.
Exit ==
  /\ cli = "prompt"
  /\ cli' = IF session # None /\ session.at = "open" THEN "leave" ELSE "gone"
  /\ UNCHANGED <<walletVars, syncVars, shown, sessionVars, starts>>

MainReturns ==
  /\ cli = "leave" /\ session = None
  /\ cli' = "gone"
  /\ UNCHANGED <<walletVars, syncVars, shown, sessionVars, starts>>

End ==
  /\ cli = "gone"
  /\ cli' = "ended"
  /\ UNCHANGED <<walletVars, syncVars, shown, sessionVars, starts>>

\* The process is killed, wherever it is.
Killed ==
  /\ cli \notin {"ended", "dead"}
  /\ cli' = "dead"
  /\ UNCHANGED <<walletVars, syncVars, shown, sessionVars, starts>>

\* What a process that has ended leaves in the files of account a, if it has been
\* writing them: nothing, a part or all.
Left(a) ==
  IF session # None /\ session.at = "writing" /\ session.account = a
  THEN {None, Torn, [key |-> session.key, holds |-> memory]}
  ELSE {file[a]}

\* The process is started again: its memory is gone, the files are not.
Start ==
  /\ cli \in {"ended", "dead"} /\ starts < MaxStarts
  /\ file' \in [Accounts -> UNION {Left(a) : a \in Accounts}]
  /\ \A a \in Accounts : file'[a] \in Left(a)
  /\ cli' = "prompt"
  /\ wallet' = 0 /\ seed' = <<>> /\ syncing' = {}
  /\ todo' = [w \in Wallets |-> <<>>]
  /\ report' = [w \in Wallets |-> 0]
  /\ listener' = [f \in Fields |-> <<0, 0>>]
  /\ shown' = <<>>
  /\ session' = None /\ memory' = {}
  /\ starts' = starts + 1
  /\ UNCHANGED <<keysUsed, locked, logins>>

-----------------------------------------------------------------------------
Init ==
  /\ cli = "prompt"
  /\ wallet = 0 /\ seed = <<>> /\ syncing = {}
  /\ todo = [w \in Wallets |-> <<>>]
  /\ report = [w \in Wallets |-> 0]
  /\ listener = [f \in Fields |-> <<0, 0>>]
  /\ shown = <<>>
  /\ session = None /\ memory = {}
  /\ file = [a \in Accounts |-> None]
  /\ keysUsed = [a \in Accounts |-> {}]
  /\ locked = FALSE
  /\ logins = 0 /\ starts = 0

Next ==
  \/ CreateWallet \/ SwitchUser \/ Replace \/ Stopped
  \/ \E w \in Wallets : Report(w) \/ Write(w)
  \/ Balance \/ ShowField \/ Shown
  \/ \E a \in Accounts : Matrix(a)
  \/ Open \/ Disconnect \/ Close \/ Truncate \/ Save
  \/ Exit \/ MainReturns \/ End \/ Killed \/ Start

Spec == Init /\ [][Next]_vars

\* The threads are scheduled, and monero nodes make the wallets report; the
\* user need not do anything, and neither need the matrix server.
FairSpec ==
  /\ Spec
  /\ WF_vars(Replace) /\ WF_vars(Stopped) /\ WF_vars(ShowField \/ Shown)
  /\ \A w \in Wallets : WF_vars(Report(w) \/ Write(w))

-----------------------------------------------------------------------------
(* Properties.                                                             *)

\* The variables keep their types.
TypeOK ==
  /\ cli \in {"prompt", "switch", "stop", "balance", "join", "leave", "gone",
              "ended", "dead"}
  /\ wallet \in 0 .. Len(seed)
  /\ seed \in Seq(Seeds) /\ Len(seed) <= MaxWallets
  /\ syncing \subseteq 1 .. Len(seed)
  /\ todo \in [Wallets -> {WriteOrder, Tail(WriteOrder), <<>>}]
  /\ report \in [Wallets -> {0, 1}]
  /\ listener \in [Fields -> Reports]
  /\ shown \in Seq(Reports) /\ Len(shown) <= Len(ReadOrder)
  /\ session \in [account : Accounts, key : Seeds,
                   at : {"start", "open", "closed", "writing"}] \cup {None}
  /\ memory \subseteq Accounts
  /\ file \in [Accounts -> Files \cup {None, Torn}]
  /\ keysUsed \in [Accounts -> SUBSET Seeds]
  /\ locked \in BOOLEAN
  /\ logins \in 0 .. MaxLogins /\ starts \in 0 .. MaxStarts

\* Once a switch is over no thread of an earlier wallet writes to the listener
\* any more, however their reports interleaved before (monero_util.cpp:15-26):
\* the progress of the active wallet is never overwritten with a former one's.
OnlyActiveReports ==
  [][cli \notin {"switch", "stop"} =>
       \A f \in Fields : listener'[f] # listener[f] =>
         \/ listener'[f] = <<0, 0>>
         \/ wallet # 0 /\ listener'[f] = <<wallet, report[wallet]>>]_vars

\* A wallet that syncs, and stays the active one, is in the end what every field
\* "balance" shows is of (monero_util.cpp:134-156).
SettlesOnActive ==
  \A w \in Wallets :
    wallet = w /\ w \in syncing ~>
      wallet # w \/ ~Running \/ \A f \in Fields : listener[f][1] = w

\* The files of an account are never refused for their key to who has always
\* logged in to it with the same wallet, whichever wallets were active when its
\* sessions were saved, and whatever saves were cut short
\* (cli_matrix_thread.cpp:1125-1137 and 1158-1167).  Torn files are refused, too.
LockedByOtherWallet ==
  locked => \E a \in Accounts, s, t \in Seeds : s # t /\ {s, t} \subseteq keysUsed[a]

\* "Show monero wallet balance and sync status" (cli.cpp:450): what is shown of
\* the progress is of the active wallet, or of none.
ShownIsActive ==
  cli = "balance" => \A n \in 1 .. Len(shown) : shown[n][1] \in {0, wallet}

\* What "balance" shows of the progress is one report.
ShownIsOneReport ==
  \A m, n \in 1 .. Len(shown) :
    shown[m][1] = shown[n][1] => shown[m] = shown[n]

\* "graceful exit" (cli.cpp:29): the listener is not written to after its end.
NobodyReportsToGone == cli = "gone" => syncing = {}

\* What is saved under the name of an account is of that account only
\* (cli_matrix_thread.cpp:1120-1122: the files are named after user and server).
FilesHoldTheirAccount ==
  \A a \in Accounts : file[a] \in Files => file[a].holds = {a}
=============================================================================
