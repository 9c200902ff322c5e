# A verification development for piac

piac lets users post advertisements from a command line client (`piac`) to a
daemon (`piac-daemon`).  Daemons replicate the ads of all users among each
other; clients talk to one daemon, and to each other through matrix servers.
This directory holds TLA+ models of the parts of that program in which order
and concurrency matter, TLC configurations that check them on small instances,
and TLAPS proofs of the theorems that matter most.

To check everything: `tlc -config X.cfg M` for each run of `PROJECT.json`, and
`tlapm M.tla` for each of `DaemonNetProofs`, `DaemonRestProofs`,
`DaemonCrashProofs`, `ClientRpcProofs`, `StartupProofs`, `MatrixClientProofs`,
`MatrixRoomsProofs` and `CliProofs`.

## 1. Inventory

| Component | State | Operations | Hard behaviour | Correct when |
|---|---|---|---|---|
| **p2p thread** of the daemon (`daemon_p2p_thread.cpp`) | `my_peers`, the flags `to_bcast_peers`, `to_bcast_hashes`, `to_send_db_requests`, the pending `db_requests` | one loop: announce peers (PEER), announce hashes (HASH), ask for ads (REQ), answer PEER, HASH, REQ, DOC of peers and PUT, NEW of the db thread | messages of many peers interleave; `my_hashes` is shared with the db thread behind a gate (`g_hashes_access`) that does not cover the reads; `my_peers.at` throws for a stranger | all daemons find each other, all get every ad, no look-up throws |
| **db thread** of the daemon (`daemon_db_thread.cpp`) | `my_hashes`, the database, the REP socket of the clients | `db add`, `db rm`, `db query`, `db list`, `peers`, GET and INS of the p2p thread, `db_update_hashes` | refills `my_hashes` while the p2p thread runs | hashes say what the database holds; every change is announced |
| **ad database** (`db.cpp`) | Xapian database, keyed by the hash of the document | index, put, get, remove, query, list | removal stops half-way at an ad of another user; documents without author; no database yet | ads leave by a `db rm` only, which takes ads of one author |
| **startup** (`daemon.cpp`, `try_bind`) | the ports of the two threads, the default peers | start, bind, next port, die | order of starts and deaths on one host; ports taken by others | two daemons of a host find each other |
| **RPC client** (`zmq_util.cpp`, `send_cmd`) | the socket, the attempts left | send, receive, time out, send again | late answers; a daemon that is slow, dead or comes back | the answer shown is the one to the command sent; the user is not kept waiting for ever |
| **matrix client** (`cli.cpp`, `cli_matrix_thread.cpp`, `cli_message_thread.cpp`) | `g_matrix_connected`, `g_matrix_shutdown`, the threads, the socket `msg_mtx` | log in, sync, disconnect, exit | three threads over two plain flags; a session that fails or ends by itself | sessions do not overlap; disconnecting ends; the msg thread is told last |
| **matrix rooms** (`cli_matrix_thread.cpp`) | `Storage`: devices, members, olm sessions, inbound and outbound megolm sessions; its file | `msg`, device keys, room keys, create room, invite, join, send, sync, save, load | requests answered in any order or not at all; `Storage` is shared with the CLI unlocked and saved only at the end of a session, into files that are emptied first; keys may be passed over; a callback refers to strings that are gone | a room's session is begun once, its key goes to people of the room only, its ratchet goes on where the last message left it as long as saves come to their end; a message whose key has been taken in is read; invitations are taken |
| **command line** (`cli.cpp`) | host, keys, user, wallet, threads | the commands, SIGINT and SIGTERM | the interrupt comes at any point | nothing is joined twice or left running |
| **wallet** (`monero_util.cpp`) | `g_wallet`, its sync thread, the one `WalletListener` | new, user, balance | threads of the old and the new wallet overlap during a switch; reports are written field by field without a lock; the wallet's key encrypts the matrix session; a save may be cut short | what is shown settles on the active wallet; files are not refused for their key to the wallet they were made with |
| **documents, JSON, strings, hashes** | none | serialization, SHA-256, tokenizing | an author id that begins with NUL is lost in serialization | - |
| **RPC security, logging, configuration, build, tests** | options read once | - | - | - |

How they interact: the two threads of a daemon exchange GET, INS, PUT and NEW
over `inproc://db_p2p` and share `my_hashes` and `my_peers`; daemons exchange
PEER, HASH, REQ and DOC, each from a DEALER socket per peer to the ROUTER socket
of the receiver; clients call the db thread through REQ/REP; the CLI spawns and
joins the mtx and msg threads, which talk over `inproc://msg_mtx`; the callbacks
of the mtx thread and the CLI's `msg` command share `g_storage`; a wallet's sync
thread writes to the CLI's listener, and the wallet's key is the storage key of
the matrix sessions begun while it is active.

## 2. Modules

| Module | What it is |
|---|---|
| `DaemonNet` | a network of daemons, each with its two threads and the clients that add and remove ads |
| `AdReplication` | what the network promises: ads are published, copied and withdrawn |
| `DaemonNetProofs` | theorems about `DaemonNet` |
| `DaemonRestProofs` | theorems about networks of `DaemonNet` that have come to rest; extends `DaemonNetProofs` |
| `DaemonCrash` | the network with daemons that are killed and started again, and what their links lose; extends `DaemonNet` |
| `DaemonCrashProofs` | theorems about `DaemonCrash`; extends `DaemonRestProofs` |
| `Startup` | daemons started, killed and started again on one host |
| `StartupProofs` | theorems about `Startup` |
| `ClientRpc` | clients that send commands to a daemon, and its queue of requests |
| `ClientRpcProofs` | theorems about `ClientRpc` |
| `MatrixClient` | the CLI, mtx and msg threads |
| `MatrixClientProofs` | theorems about `MatrixClient` |
| `MatrixRooms` | `Storage`, the `msg` command, syncs and the requests of the matrix client |
| `RoomSessions` | what the client promises of the sessions of its rooms |
| `MatrixRoomsProofs` | theorems about `MatrixRooms`, its refinement of `RoomSessions` among them |
| `Cli` | the CLI around the wallet, its sync threads and the files of matrix accounts |
| `CliProofs` | theorems about `Cli` |
| `MC...` | instances for TLC |

`Startup` justifies what `DaemonNet` assumes of ports and default peers
(`NetAssumption`, `DefaultPeers`): daemons of one host, each of them named
`localhost:<port>`.  `DaemonNet` and `ClientRpc` both contain the
db thread: the first with what peers see of it, the second with what clients do.

### DaemonNet

One variable per container or flag of the code: `peers` (`my_peers`),
`toBcastPeers`, `toBcastHashes`, `toSendDbRequests`, `dbRequests`, `hashes`
(`my_hashes`), `db` (the Xapian database); `chan`, `toDb` and `toP2p` are the
sockets; `p2pPc`, `inMsg` and `dbInput` say where the p2p thread is in its loop,
`dbPc` where the db thread is.  `added` is history (the ads users have added to
each daemon), `budget` the bound on client commands.  An ad stands for its document and for its hash, which is its key.

The p2p thread is split where another thread can see or do something in
between: `BcastPeers`, `BcastHashes`, `SendDbRequests` and the poll are its
passes through the loop, a message is received (`RecvPeer`) and answered in the
action of its type.  Both readers of `my_hashes` wait at the gate
(`GateOpen`, `PassGate`) and then read *without* the mutex, which is what the code
does; `db_update_hashes` is `BeginUpdate` (the list is fetched) and `EndUpdate`
(the gate is reopened and NEW is sent, in one step: in between the p2p thread could
but read the new set, as it may afterwards).  A reader that got through before the gate closed and
reads while the set is being refilled gets *any* mixture of old and new hashes
(`HashViews`): the code has a data race there, and this is the modelled range of
what it can read.  The number of hashes is written before them
(`daemon_p2p_thread.cpp:93-94`); if the set has grown or shrunk in between, the
number does not fit what follows, and parsing throws in the receiver.  This, or a
crash caused by the race, is a daemon that stops, which safety properties cover
because every step may be the last; the liveness properties are about networks
in which it does not happen.

ZeroMQ is taken to keep the order of the messages of a link, to lose none while
both ends run, and to keep messages for a peer that is not up yet; its
high-water marks are not modelled.

### AdReplication

`store` and `added`, with `Publish`, `Withdraw` and `Copy`: a daemon gets an ad
by `db add`, which `added` records, or as a signed copy of an ad published
somewhere; ads leave a daemon by a `db rm`, which takes ads of one author.
`DaemonNet` implements it with `store <- db`.

### DaemonCrash

`Restart(d)` may happen at any point of either thread of `d`: `SetUp` gives the
variables of `d` the values `main` and the two threads start with, the database
stays, and `LinksBreak` loses messages.  A link that ends at `d` loses from its
front (what had reached `d`), a link that begins at `d` from its end (what had
not left it).  A daemon that is down is one that has been started and has not
taken a step.  `restarts` bounds the restarts, `last` is history.  The look-ups
that throw when a daemon is unknown may really fail here, so `PeersKnown` is not
among the properties of these runs; see `DaemonCrash_throws` below.

### Startup

`thread`, `port` and `peers` of each daemon; `Bind`, `TryNext` and `StrictFail` are
the outcomes of one turn of `try_bind`, `Stop` is a kill at any time, `Start` may
follow it.  A search has no bound, for the bound of the code moves with the port
(`Startup_range`).  Either bind option makes both ports strict (`daemon.cpp`).  Ports
are small numbers; `Foreign` are taken by other programs.

### ClientRpc

A command is an operation and an ad; `retries`, `sock` and `req` are the locals of
`pirate_send`; `out`, `in` and `back` are requests on their way, requests waiting
at the daemon and replies.  A socket that is closed drops what it has not sent
(linger 0) and what comes back for it; a request that has reached the daemon is
carried out all the same.  The daemon carries out a command and replies in one
step (`Answer`); a daemon killed in between is one whose reply the client does not
receive before its time-out.  `got` and `replies` are history.

### MatrixClient

`connected` and `shutdown` are the two flags; `mtx[i]`, `msg[i]` say where the two
threads of the i-th `matrix` command are, `joinable` is `g_threads`, `wire` the
socket.  The stores to the flags, the CLI's test and its store, and the notice to
the msg thread are separate actions, since other threads run in between.  `Notify`
is the last of them and has the save with it, which is in `MatrixRooms` and `Cli`.
`careless` is history: it records that the user has logged in before all threads
of an earlier login had ended, or with a port that is no number.  The code serves
such a user badly (a msg thread nobody tells to end is joined for ever, or the
client aborts, or a flag raised for one session is lowered by an earlier one that
ends), so the properties of the runs are stated for the others.  `Interrupt` is the signal
handler, which does what `exit` does wherever the CLI is: a CLI that is waiting
for threads already would join them a second time, which throws.

### MatrixRooms and RoomSessions

`storage` is `g_storage`, `disk` the session file, `reqs` the requests that have
not been answered; the callbacks run on one thread, in any order, with the CLI's
`msg` command (`matrix_message`) between them.  A request may fail, in which case
its callback prints an error (`RequestFails`), or be answered (`RoomMade` and
`RoomAnswered`, `InviteDone`, `JoinDone`, `QueryDone`, `ClaimDone`, `KeySent`,
`PostDone`).  `SyncDone` is the whole of `parse_messages`: rooms are joined, room
keys taken in, then events of rooms read in.  Which keys it takes in is left open: one
is passed over that comes in an olm message of another type than 0, of a session
that does not match, or in a form that cannot be parsed
(`cli_matrix_thread.cpp:406-447`, `473-477`), and `SyncDies` is what the olm library
throws uncaught.  `keyed` is the history of the keys taken in.  The client has one
outbound session for each room it made, so the room stands for the session, and
`groupOut[r]` is how far its ratchet has gone; `<<r, p>>` is the session of `p` in
room `r`.  `srv`, `mine`, `posts` and `unseen` are the server's; `TheyInvite`,
`TheyCome`, `TheirKey` and `TheyPost` are other people, who may do whatever a server
lets them.  Four behaviours of the code deserve a word:

- The callback given to `create_room` has references to strings of calls that
  have returned.  It finds what they were, or those of the latest `msg` (same
  place on the stack), or garbage, or the process dies.
- A known room without a session (someone else made it, or its members were not
  known when the room was made) makes `get_outbound_group_session` return null,
  and the process dies (`MsgDies`).
- A room key goes to a device with an olm session in a body that names a
  `(user, flag)` pair where a user belongs; the server refuses it.  To other
  devices it goes after a one-time key has been claimed; the answer may have none
  (`ClaimNoKey`), or not even the user, which throws (`ClaimEmpty`).
- At the end of a session `save` opens the file, which empties it, or cannot
  (`Logout`), and writes it afterwards (`Save`); the account file is written after it
  in the same way, and the two count as one.  A kill in between leaves them empty,
  torn or whole (`Restart`); torn ones cannot be parsed, and every later login ends
  the process (`LoginDies`).  `load` takes sessions over and replaces lists.  A kill
  loses what was not saved.  `spent` is the history of the ratchets' last use, `lost`
  of whether a session has ended without its save.

`RoomSessions` is the promise: sessions begin once and in rooms where someone has
been seen, keys go to devices of people seen in the room, ratchets go forward one
step per message.  They go back in three ways: to what was saved last when that is
loaded (`Load`), which is older than what is in memory when a save has failed in a
process that goes on; with the process (`Forget`); and with a file that was emptied
(`Tear`).  That nothing else sets them back is `RatchetsKept` of `MatrixRooms`: while
no session has ended without its save, they go on where the last message left them.

### Cli

`wallet` is the wallet in `g_wallet`, `syncing` those whose threads report,
`listener` which report each field of the `WalletListener` is of.  Two of the
fields stand for all; `on_sync_progress` writes them in one order and `balance`
reads them in another.  Making a wallet (`StartSyncing`) and assigning it to
`g_wallet` (`Replace`, `Stopped`) are separate, since the new wallet's thread runs
in between; the old one's stops in its destructor.  `session`, `memory` and `file`
are what matters of a matrix account here: with whose key its files are written
and which accounts they hold anything of.  A session is closed (`Close`,
`g_matrix_connected` is lowered), its file emptied (`Truncate`) and written (`Save`),
or not; `Exit` waits for an open session and not for one that is being saved, and
`Killed` may come anywhere: `Left` is what either leaves in the files, `Torn` among it.
A user has one session at a time;
`MatrixClient` has the others.

## 3. Runs

Passing runs:

| Run | Instance | Shows |
|---|---|---|
| `DaemonNet_add` | 2 daemons of one host (the second knows the first by its port), alice's two ads, one of them unsigned, at the first, bob's added anywhere; fairness | types, no unknown peer, every signed ad spreads, the daemons stop talking, at rest all know each other and hold every signed ad, refinement of `AdReplication` |
| `DaemonNet_mesh` | 3 daemons that know each other, 1 ad | at rest all hold the ad, though it comes from two peers at once |
| `DaemonNet_chain` | 3 daemons, each knows its predecessor; fairness | introductions come first on every link; all find each other; at rest all know each other |
| `DaemonNet_rm` | 2 daemons, an ad each, one `db rm` of any ads by anyone at any time | ads leave by a `db rm` only, those of one command are of one author; removal never makes a look-up throw |
| `DaemonCrash_rm` | 2 daemons, all ads at one, one `db rm` of any ads by anyone at any time, one kill and restart at any time with any loss on the links | no restart takes an ad away: ads leave by a `db rm` only, those of one command are of one author; if none was removed, what a restarted daemon has is everywhere at rest |
| `Startup_ports` | 3 daemons, two starts each, two taken ports, one `--rpc-bind-port` | daemons that search never share a port and one of two knows the other; searches end |
| `ClientRpc_retry` | 1 client, 2 commands, 3 attempts, the daemon may stop once | the answer shown is to the command sent; at most one execution per attempt; commands return |
| `MatrixClient_logins` | 2 logins at any time, overlapping or not, bad ports | for a user who is not careless: sessions apart, SHUTDOWN last, a raised `g_matrix_shutdown` stays raised until the session has heard of it, disconnecting ends, the msg thread ends after the mtx thread |
| `MatrixRooms_msg` | 1 other person with a device, 1 room, 2 messages, 2 logins, 1 restart; fairness | refinement of `RoomSessions`; a message is missed only if its key has not been taken in; ratchets go on where the last message left them while saves come to their end; a claimed key leads to a room key sent; invitations are taken |
| `Cli_wallet` | 2 wallets of 2 seeds, 1 account, 2 logins, 1 restart; fairness | no report of a former wallet after a switch; what is shown settles on the active wallet; an account's files are refused for their key only after a login with another wallet, whatever saves were cut short |

Runs that find a disagreement between the code and what it says of itself (each
is a finding in `PROJECT.json`):

| Run | Property | What happens |
|---|---|---|
| `DaemonNet_ins` | `InsNotEmpty` | `assert( num > 0 )` of the db thread fails: an INS without documents |
| `MatrixRooms_stale` | `ReachesItsUser` | a message for one user is posted to the room of another |

Other disagreements met on the way.  Their properties are stated in the modules
and their configurations kept here, but they are not among the runs, which keep
to the disagreements that matter most:

| Configuration | Property | What happens |
|---|---|---|
| `Startup_range` | `WithinRange` | the search for a port is not bounded by its range: the bound of the loop moves with the port (`zmq_util.cpp:132`; `zmq_util.cpp:116`: "Number of ports to attempt in increasing order: port+range") |
| `DaemonNet_sync` | `RestSynced` | removals are not synced: peers keep the ad its author removed, for `db_client_op` announces what is left and nobody asks for less (`daemon_p2p_thread.cpp:194-197`; `doc/communication.md:61-62`: "Changes to the database are automatically synced among peers.") |
| `DaemonCrash_lost` | `RestAgrees` | a killed daemon loses hashes it was sent; its peers, which know it, do not announce them again until something changes, and the restarted daemon asks nobody (`doc/communication.md:48-51`) |
| `DaemonCrash_rest` | `RestKnowsAll` | a daemon that was introduced by the only one to know it is not introduced again when it is restarted (`doc/communication.md:44`: "eventually all peers find each other") |
| `DaemonCrash_throws` | `PeersKnown` | a HASH that outlives the restart of its receiver comes before any PEER: `my_peers.at` throws, and the daemon ends |
| `ClientRpc_count` | `ShownCountIsTrue` | a retried `db add` that was carried out already reports that nothing was added (`zmq_util.cpp:101`, `db.cpp:105`) |
| `MatrixClient_offline` | `DisconnectEnds` | no end of a session while the server is away: `sync_handler` repeats a failed sync before it looks at `g_matrix_shutdown` (`cli_matrix_thread.cpp:960-968`) |
| `MatrixRooms_pair` | `OneRoomPerUser` | two messages to one user before the first sync make two rooms (`cli_matrix_thread.cpp:826-832`) |
| `MatrixRooms_null` | `RoomHasSession` | `msg` to a user in a room the client has no session for ends the process (`cli_matrix_thread.cpp:838`) |
| `Cli_switch` | `ShownIsActive` | after a switch to a wallet without connection, `balance` shows the progress of the former one |
| `Cli_torn` | `ShownIsOneReport` | `balance` shows fields of two reports |
| `Cli_gone` | `NobodyReportsToGone` | `g_wallet.release()` (`cli.cpp:30`) does not destroy the wallet, whose thread reports to a listener that has ended with `main` |
| `Cli_files` | `FilesHoldTheirAccount` | `g_storage` outlives a session, so the files of one account get what belongs to another |
| `DaemonNet_put` | `PutNotEmpty` | `assert( num > 0 )` of the p2p thread (`daemon_p2p_thread.cpp:273`) fails: an ad is removed between its announcement and the request for it, and the PUT carries no documents |
| `DaemonNet_unsigned` | `RestSynced` | an ad whose author is lost in serialization (`document.cpp:51`) stays on one daemon and is asked for again at every announcement (`db.cpp:254-256`) |
| `DaemonNet_torn` | `NoTornRead` | `my_hashes` is read while it is refilled: the gate is passed, the mutex released, the set read (`daemon_p2p_thread.cpp:84-94`) |
| `ClientRpc_empty` | `ResponseIsShown` | `db query` without a database is answered with nothing, and the client reports no response |
| `MatrixClient_fresh` | `LoginStartsFresh` | a session ends by itself between the CLI's test of `g_matrix_connected` and its store to `g_matrix_shutdown` (`cli.cpp:545-546`); the next session ends at its first sync |
| `MatrixClient_again` | `NoAbortAtLogin` | a second `matrix` command aborts the client: the name of its msg thread's socket is taken (`cli_message_thread.cpp:44`) |
| `MatrixClient_exit` | `ExitIsGraceful` | after a login that failed, threads nobody has joined terminate the process at exit (`cli.cpp:31-36`) |

Configurations that pass and are kept for larger or other instances:
`MatrixRooms_wide` (the safety properties of `MatrixRooms_msg`
with a device of the client's user as well; 3.7 million states) and
`MatrixRooms_live` (two devices, one message: also `LeavingEnds`, that the CLI's
wait for the mtx thread ends whatever requests are under way).

### Bounds

- **Daemons.**  Two daemons have every interleaving of the four threads and both
  directions of a link; three are needed for an introduction by a third party
  (`chain`) and for one ad offered by two peers (`mesh`).
- **Ads.**  Two let a torn view be neither old nor new and let the two daemons
  have different ads; the one without author is refused by peers.
- **Client commands** (`MaxAdd`, `MaxRm`): one command already falls between any
  two steps of the replication.
- **Ports.**  26 ports with the p2p and rpc ranges ten apart as in the code;
  three daemons, with two starts each, leave gaps below those that still run.
  The search of `TryNext` has no bound, as in the code.
- **Attempts and commands.**  Three attempts (five in the code) and two commands
  are enough for an answer to attempt 1 to come during attempt 2 or the next
  command.  `MaxStops` is one stop of the daemon.  The runs of `ClientRpc` have one
  client: sockets are per client, and the database is the only thing they share.
- **Logins** (`MaxLogins`) and messages in the socket (`MaxWire`): an earlier
  session can disturb the next, or overlap with it.
- **Restarts** (`MaxRestarts`, `MaxStarts`): one falls between any two steps, with
  every loss on the links; the proofs have any number.
- **Rooms** (`MaxRooms`, `MaxMsgs`): one room and two messages let the second
  message use the session the first began, go through a login, or be lost with
  the process; `MatrixRooms_stale` has two rooms and two other people, for two
  `create_room` answers to meet.
- **Wallets** (`MaxWallets`, `MaxLogins`): two are one switch; three were checked as
  well and show nothing more.  Reports are numbered modulo 2, so that a report
  can be told from the one before it.
- Deadlock is not checked: daemons that wait for clients, a host where all starts
  are used up, and a client that has exited really have no next step in these
  models.

### Fairness

- `DaemonNet`: weak fairness of each thread.  The operating system schedules both,
  and they block only in a poll (100 ms) or at the gate, which the db thread opens.
  Clients are never obliged to come.
- `Startup`: weak fairness of each thread, none of starts and kills.
- `ClientRpc`: weak fairness of the client's poll, which a message or
  `REQUEST_TIMEOUT` ends; none of the daemon and the network.
- `MatrixClient`: weak fairness of the three threads and of the answer to the
  login; `OnlineSpec` adds that a sync that is repeated succeeds in the end
  (strong fairness of `SyncOk`), without which disconnecting may not end:
  `MatrixClient_offline`.  Nothing obliges the user to do anything.
- `MatrixRooms`: every request is answered or fails (the http library has a
  timeout), a sync is repeated until it succeeds, and the end of a session,
  its save included, comes when all requests are answered.  Nothing obliges the user, the server's other
  users, or the answers to come in any order.
- `Cli`: the CLI carries out a command it has begun, and the thread of a wallet
  with a connection reports again and again (every 10 s, `start_syncing`).

## 4. Proofs

Every safety property that a run checks, invariants, action properties and
refinements alike, is proved for every value of the constants; what is left to
TLC is liveness.  Each inductive invariant was checked by TLC on the instances
of section 3 before it was proved.

### DaemonNetProofs

For any number of daemons of one host, users and ads, any databases at the start,
any `--peer` arguments that name daemons of the host by the address each gives
itself (`NetAssumption`, section 5), and any number of client commands:

| Theorem | Property | Argument |
|---|---|---|
| `TypeCorrect` | `TypeOK` | inductive as it stands; one lemma for each thread |
| `AlwaysIntroduced` | `Introductions` | part of the inductive invariant `IInv` |
| `NeverUnknownPeer` | `PeersKnown` | part of `IInv` |
| `Replicates` | `ReplicatesAds` | `OnlyPostedAds` and `HashesCurrent` are invariant; every step maps to a step of `AdReplication` or to a stutter |
| `OneAuthorsAdsLeave` | `OnlyOneAuthorsAdsLeave` | `HashesCurrent` and the guard of `db_rm_docs` |

`PeersKnown` is not inductive: it says that the senders of pending requests are
known, which follows only from the order of messages *on the links*.  The
strengthening is `IInv == TypeOK /\ Introductions /\ PeersKnown`.  `Introductions`
says, of each link, that a HASH or REQ of `x` comes to a daemon that knows `x` or
that will by then, because an earlier message on the same link is a PEER that
names `x`; and, of each daemon, that it is past announcing its peers whenever it
can announce hashes or ask.  Adding a peer raises `to_bcast_peers`, and the next
turn of the loop sends PEER before anything else: this is the order the proof
uses.

### DaemonRestProofs

What a network has reached when it comes to rest, for any number of daemons:

| Theorem | Property | Argument |
|---|---|---|
| `RestIsKnown` | `RestKnowsAll` | `PeersTold` of the invariant `NetInv`, and connectedness |
| `RestIsUnion` | `RestAgrees` | `Spreading(a)` of the invariant `RestInv`, with `RestKnowsAll` |
| `KeptIsEverywhere` | - | `NetInv /\ Spreading(a)`, of one ad `a` that nobody removes while others are removed |

`RestKnowsAll` and `RestAgrees` speak of networks at rest only, and so say nothing
of the states before.  `NetInv`, and for each ad `Spreading(a)`, say of every state
where what is still to be told is:

- `Custody(a, x, y)` of `Spreading(a)`: if `x` stores the signed ad `a` and `y` is a peer of `x`, then
  `y` stores `a`, or `x` is going to announce its ads (the flag is up, the db
  thread is listing the ads, or its NEW waits), or `a` is on its way
  (`OnItsWay`): in a HASH of `x` or any DOC under way to `y` or just received, in
  `db_requests`, in a REQ under way or received, in a GET or a PUT between the
  threads of `x`, or in an INS between those of `y`.  Each step of the network
  moves the ad on by one of these places; none drops it (`CustodyStep`) unless it
  takes the ad out of a database (`Keeps`), which only a `db rm` does (`NoRmKeeps`).
- `PeersTold`: once `x` has announced its peers, each of them knows all of these, or
  will when it has answered what it holds or what is on the link.
- `Stored(a)` and `Phases` are what the steps need: whatever a reader sees of a set
  that is being refilled is stored (`ViewsStored`), so that an ad is never taken
  for known when it is not; and the p2p thread is never past the announcement, or
  the requests, with a flag up.

`DueStep` is the step where a torn announcement could lose an ad: an announcement
read before the list of ads is complete leaves another one due, for the NEW of
the db thread comes after it.

Two hypotheses: `Connected` (the `--peer` arguments and ports leave no group of
daemons that no argument and no port ties to the others), without which daemons
cannot find each other; `PortsConnect` proves it for daemons on the default port
and above it, without any argument.  And in `RestAgrees` itself `budget.rm = MaxRm`:
networks in which ads are removed need not agree (`DaemonNet_sync`).  What remains
true of these is `KeptIsEverywhere`: an ad that nobody removes is everywhere at
rest, whatever the removal of other ads leads to.

### DaemonCrashProofs

With any number of restarts, each with any loss on the links:

| Theorem | Property | Argument |
|---|---|---|
| `CrashTypeCorrect` | `TypeOK` | part of the inductive invariant `CrashInv` |
| `CrashReplicates` | `ReplicatesAds` | a restart is a stutter of `AdReplication`; the other steps as in `Replicates`.  An ad removed at a daemon may come back from a peer, as it may without restarts |
| `CrashOneAuthorsAdsLeave` | `OnlyOneAuthorsAdsLeave` | as in `OneAuthorsAdsLeave`; a restart leaves databases alone |
| `RestartedAreCopied` | `RestartedIsCopied` | part of the inductive invariant `CopyInv` |

`CrashInv == TypeOK /\ HashesCurrent /\ OnlyPostedAds` is the part of the
invariants of `DaemonNetProofs` that a restart keeps; the lemmas of that module
about the steps of threads and clients are used as they are, and only `Restart`
needs new ones.  `RestartTypeOK` and `RestartOnlyPosted` rest on `BrokenLinks`: what
is left of a queue is a sequence of messages that were in it.  `HashesCurrent`
survives since a daemon that starts holds no hashes and has to fetch them before
it answers anyone.  `Introductions` and `PeersKnown` are not in `CrashInv`: they
fail under restarts.

`CopyInv` is what restarts leave of `RestInv`: `Custody` holds of the ads of the
daemon that was restarted last, for it has to announce them all, and of no other
daemon, whose messages may have been lost (`DaemonCrash_lost`).  The theorem is
about daemons that are each given all the others as peers; one that is not may
forget peers others have told it of, and not hear of them again
(`DaemonCrash_rest`).

### ClientRpcProofs

For any number of clients, ads, attempts, commands and stops of the daemon:

| Theorem | Property | Argument |
|---|---|---|
| `TypeCorrect` | `TypeOK` | part of the inductive invariant `IInv` |
| `ShownIsTrue` | `ShownAnswersCommand` | part of `IInv` |
| `AtMostRetriesTimes` | `AtMostRetries` | `AttemptsPay`, inductive with `IInv` |

`ShownAnswersCommand` is not inductive: a reply still under way could be an old
one.  `SocketsOnce` says that whatever is under way through the socket a client
uses belongs to the command in hand, and `RepliesTrue` that a reply under way was
made to the request it carries.  Both rest on one fact of the code: `pirate_send`
and each of its retries open a socket that was never used before.  `AttemptsPay`
counts: the replies made to a command and the requests of it that may still be
answered are together no more than the attempts made, since an attempt puts one
request on its way and an answer takes one off.

### StartupProofs

For any number of daemons on a host, any ports, options and peers given, any
ports taken by others, and any number of starts and kills in any order:

| Theorem | Property | Argument |
|---|---|---|
| `TypeCorrect` | `TypeOK` | part of the inductive invariant `IInv` |
| `HigherKnows` | `HigherKnowsLower` | `PassedArePeers` and `PortsApart` of `IInv` |
| `NeverOwnPeer` | `NotOwnPeer` | `PassedArePeers` |

`HigherKnowsLower` relates two daemons and is not inductive: which one started
first, and what had died in between, is no longer to be seen.  `PassedArePeers`
says of one daemon that it has for peers *all* ports between the first and its
own, whoever listens there or will; `PortsApart`, that threads that listen have
different ports.  `TypeOK` says that a thread that listens does so on a port there
is and that no other program has; the port a thread tries may be any number.

### MatrixClientProofs

For any number of logins, overlapping or not:

| Theorem | Property | Argument |
|---|---|---|
| `TypeCorrect` | `TypeOK` | part of the inductive invariant `IInv` |
| `SessionsFollow` | `SessionsApart` | `OneSession` of `IInv` |
| `EndIsToldLast` | `ShutdownIsLast` | `OneSession` |
| `RaisedReaches` | `RaisedIsHeard` | inductive with `OneSession` and `RaisedInSession` |

What keeps the last three true is that the last login's place, the flags and the
wire agree.  `OneSession` says so: all earlier
logins have ended, the client is connected only while the last one's session
goes on, the wire holds no SHUTDOWN before its mtx thread has ended, and one
SHUTDOWN at its end afterwards, until the msg thread has read it.
`RaisedInSession` adds that a CLI that leaves does so for a session that has been
connected, so that no thread but that session's own, at its end, lowers the flag
again.  When logins overlap, an earlier session that ends may lower a flag that was
raised for a later one.

### MatrixRoomsProofs

For any number of people, devices, rooms, messages, logins and restarts:

| Theorem | Property | Argument |
|---|---|---|
| `TypeCorrect` | `TypeOK` | part of the inductive invariant `IInv` |
| `Implements` | `KeepsPromises` | under `IInv` every action maps to one of `RoomSessions` or to a stutter |
| `MissedOnlyIfLate` | `MissedOnlyIfKeyLate` | `KeyedReadable`, inductive with `IInv` |
| `RatchetsStay` | `RatchetsKept` | `RatchetsSaved`, inductive with `IInv` |

The refinement needs to know of requests under way what the callbacks take for
granted.  `RoomsOnce`: the room an answer to `create_room` names has no session yet, in
memory or on disk, and no other answer names it; else a session would begin
twice.  `KeysToMembers`: keys under way go to devices of people seen in the room;
it rests on `OwnersKnown` (devices are filed under their owners).  `CommandsPay`
bounds ratchets by the messages the user has asked for.  `IdleEmpty` (no session
means no request) is why what `load` puts into `Storage` cannot meet an answer to
an earlier session.  `KeyedReadable` says that until the process is restarted
the sessions whose keys have been taken in are still in memory, whatever `load` has
done.  `RatchetsSaved` carries `RatchetsKept` through the states without a session,
where the ratchets are in memory, in the file, or in both.

### CliProofs

For any number of seeds, accounts, wallets, logins and restarts:

| Theorem | Property | Argument |
|---|---|---|
| `TypeCorrect` | `TypeOK` | part of the inductive invariant `IInv` |
| `FilesStayReadable` | `LockedByOtherWallet` | `KeysAreUsed` of `IInv` |
| `ReportsAreActive` | `OnlyActiveReports` | `OthersQuiet` of `IInv` |

`OthersQuiet`: outside a switch no wallet but the active one syncs or is in the
middle of a report, since the old wallet's destructor waits for its thread.
`KeysAreUsed`: sessions, and files that are whole, have keys that their accounts
were logged in with, so that a key that does not fit is evidence of a second one.

### Assumptions

Those of the modules on their constants, which TLC evaluates in every run:
`UsersAssumption`, `AdsAssumption`, `NetAssumption`, `InitDbAssumption` and
`BoundsAssumption` of `DaemonNet`; `RestartsAssumption` of `DaemonCrash`;
`RpcAssumption` of `ClientRpc`; `PortsAssumption` of `Startup`; `MatrixAssumption` of
`MatrixClient`; `PeopleAssumption`, `BoundsAssumption` and `FileAssumption` of
`MatrixRooms`; `CliAssumption` of `Cli`.  They type the constants, keep model values
apart and say that bounds are numbers.  The distinct ports of `NetAssumption` are
`HigherKnowsLower` of `Startup`.

### Model-checked only

Liveness, which is out of the prover's reach: `EveryAdSpreads`, `ComesToRest`,
`AllFindEachOther`, `SearchEnds`, `EveryCommandReturns`, `DisconnectEnds`,
`MsgFollowsMtx`, `ClaimedGetKey`, `InvitesTaken` and `SettlesOnActive`.  With
`ComesToRest`, which TLC checks, `RestIsUnion` is the safety half of `EveryAdSpreads`,
and `RestIsKnown` that of `AllFindEachOther`.

## 5. Not modelled

- High-water marks of the sockets, and loss on a link whose ends both run.
- The `peers` command, which lists `my_peers` while the p2p thread may change it.
- Addresses.  The code compares them as strings (`daemon_p2p_thread.cpp:172`, `323`),
  and a daemon always gives itself the name `localhost:<port>` (`60`, `92`, `122`).  In
  the models a daemon is its address: daemons of one host that name each other
  `localhost:<port>`.  With `--peer 127.0.0.1:<port>`, or a peer on another host, the
  name a daemon is known by is not the one it gives itself: it may take up itself or
  strangers as peers, and `my_peers.at` (`126`) throws for a sender known by another
  name.  `PeersKnown` and what rests on it say nothing of such networks.
- Numbers that do not fit: an announcement whose count is not that of its hashes
  (section 2) throws in the receiver, which stops.
- That the session file and the account file may be cut short differently:
  there is none if the account file is empty, and both are torn if either is.
- Of the matrix client: the count and upload of one-time keys, the device id and
  access token that a later login takes from the file, `msg` after a session has
  ended (the client object is there, and its requests fail), and containers torn
  by two threads.  `olm_inbound_sessions` and `encrypted_rooms` are written and
  never read.
- Of the wallet: a wallet that cannot be made, and the coins.  `server` keeps the
  public key of the previous host when none is given (`cli.cpp:617-626`); the
  settings `server` and `monerod` are read by later commands only.
- The text of commands and documents; the ranking of queries; CURVE.

## 6. Plan

Done, in this order: `DaemonNet` with `AdReplication` and its proofs, `Startup`,
`ClientRpc`, `MatrixClient`, the proofs about `ClientRpc`, `DaemonCrash` and its
proofs, `MatrixRooms` with `RoomSessions`, `Cli`; then the proofs of all safety
properties of the runs.

Next:

1. Proofs that go beyond the runs' properties: `RestartedAreCopied` for each ad that
   nobody removes, as `KeptIsEverywhere`; that all who hold a room's key are people
   seen in the room; what stays true of the last session of a careless user.
2. `DaemonQueues`: the two threads and the links with bounded queues; who can
   wait on whom.
3. `Documents`: what the database operators do to a list of documents, proved
   against their set definitions in `DaemonNet`.
4. `CommandLine`: the prefix dispatch of `cli.cpp` and `db_client_op` over the
   classes of commands they tell apart, and the AUTH suffix.
