--------------------------- MODULE AdReplication ---------------------------
(***************************************************************************)
(* What the network of daemons promises to the users of its databases,     *)
(* whatever the daemons say to each other: an ad enters a database because *)
(* its poster adds it there, or as a copy of an ad that was added          *)
(* somewhere; it leaves a database only when its author removes it there.  *)
(***************************************************************************)
EXTENDS FiniteSets

CONSTANTS
  Daemons, Users, NoUser, Ads,
  PosterOf, AuthorOf,   \* who adds an ad, and the author the document names
  InitDb                \* what the databases hold at the start

VARIABLES
  store,   \* the ads in the database of each daemon
  added    \* the ads users have added to each of them so far

vars == <<store, added>>

\* The ads that have been added, to any daemon.
posted == UNION {added[d] : d \in Daemons}

Init ==
  /\ store = InitDb
  /\ added = InitDb

\* User u adds the ads of a file of theirs to the database of d.
Publish(d, u) ==
  \E file \in SUBSET {a \in Ads : PosterOf[a] = u} :
    /\ store' = [store EXCEPT ![d] = @ \cup file]
    /\ added' = [added EXCEPT ![d] = @ \cup file]

\* User u removes ads that name u as their author from the database of d.
Withdraw(d, u) ==
  /\ \E gone \in SUBSET {a \in store[d] : AuthorOf[a] = u} :
       store' = [store EXCEPT ![d] = @ \ gone]
  /\ UNCHANGED added

\* d copies ads that were added somewhere and that name an author.
Copy(d) ==
  /\ \E docs \in SUBSET {a \in posted : AuthorOf[a] # NoUser} :
       store' = [store EXCEPT ![d] = @ \cup docs]
  /\ UNCHANGED added

Next ==
  \E d \in Daemons :
    \/ Copy(d)
    \/ \E u \in Users : Publish(d, u) \/ Withdraw(d, u)

Spec == Init /\ [][Next]_vars
=============================================================================
