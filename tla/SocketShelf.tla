----------------------------- MODULE SocketShelf -----------------------------
(***************************************************************************)
(* What a socket pool promises (pool.rs 1-14), whatever its task, locks    *)
(* and timers do: a shelf of spare sockets.  A socket is put on it fresh   *)
(* from the dial, stays there until it has gone bad or somebody takes it,  *)
(* and is used by the one who took it and by nobody after.  Spares and the *)
(* dial for one more never exceed the room there is, and nothing comes to  *)
(* a shelf that is closed.  UpstreamPool is shown to implement this.       *)
(***************************************************************************)
EXTENDS Integers, FiniteSets

CONSTANTS
    Sock,     \* sockets; a closed one's name is used again
    Conn,     \* who may take one
    NoSock,   \* no socket
    MinIdle   \* how many spares there should be

VARIABLES
    parked,   \* the spare sockets
    bad,      \* those of them that are too old, closed or not silent
    lent,     \* the socket each connection has taken
    dialing,  \* a dial is under way
    dialed,   \* the socket it has yielded
    closed    \* the shelf is gone

shelfVars == <<parked, bad, lent, dialing, dialed, closed>>

InUse == parked \cup {dialed} \cup {lent[c] : c \in Conn}

\* These sockets stay on the shelf, no better than they were.
Keep(S) ==
    /\ parked' = S
    /\ bad' = bad \cap S

ShelfInit ==
    /\ parked = {} /\ bad = {}
    /\ lent = [c \in Conn |-> NoSock]
    /\ ~dialing /\ dialed = NoSock
    /\ ~closed

\* A dial begins when a spare is missing; it may be the last thing that does.
Dial ==
    /\ ~dialing /\ dialed = NoSock
    /\ Cardinality(parked) < MinIdle
    /\ dialing'
    /\ UNCHANGED <<parked, bad, lent, dialed, closed>>

\* It yields a socket that nobody has; meanwhile others may have gone bad.
Connect ==
    /\ dialing /\ ~closed
    /\ ~dialing'
    /\ dialed' \in Sock \ InUse
    /\ bad \subseteq bad' /\ bad' \subseteq parked
    /\ UNCHANGED <<parked, lent, closed>>

\* It fails, or is dropped.
GiveUpDial ==
    /\ dialing
    /\ ~dialing'
    /\ UNCHANGED <<parked, bad, lent, dialed, closed>>

\* The socket becomes a spare, and a good one.
Park ==
    /\ dialed # NoSock /\ ~closed
    /\ parked' = parked \cup {dialed}
    /\ dialed' = NoSock
    /\ UNCHANGED <<bad, lent, dialing, closed>>

\* Nothing is left to put it on.
CloseDialed ==
    /\ dialed # NoSock /\ closed
    /\ dialed' = NoSock
    /\ UNCHANGED <<parked, bad, lent, dialing, closed>>

\* c gets a good spare, or none if none is good.  Bad ones may close on the way.
Take(c) ==
    /\ lent[c] = NoSock
    /\ \/ /\ parked = bad
          /\ UNCHANGED lent
          /\ Keep({})
       \/ \E s \in parked \ bad, worse \in SUBSET bad :
             /\ lent' = [lent EXCEPT ![c] = s]
             /\ Keep(parked \ (worse \cup {s}))
    /\ UNCHANGED <<dialing, dialed, closed>>

\* c is done with its socket, and so is everybody.
Use(c) ==
    /\ lent[c] # NoSock
    /\ lent' = [lent EXCEPT ![c] = NoSock]
    /\ UNCHANGED <<parked, bad, dialing, dialed, closed>>

\* Bad spares are closed.
Sweep ==
    /\ Keep(parked \ bad)
    /\ UNCHANGED <<lent, dialing, dialed, closed>>

\* Good spares go bad.
GoBad ==
    /\ bad \subseteq bad' /\ bad' \subseteq parked
    /\ UNCHANGED <<parked, lent, dialing, dialed, closed>>

\* The shelf goes, with all that is on it, when its last user does.
CloseShelf ==
    /\ ~closed /\ closed'
    /\ Keep({})
    /\ dialed' \in {dialed, NoSock}
    /\ \/ UNCHANGED lent
       \/ \E c \in Conn : lent' = [lent EXCEPT ![c] = NoSock]
    /\ UNCHANGED dialing

ShelfNext ==
    \/ Dial \/ Connect \/ GiveUpDial \/ Park \/ CloseDialed
    \/ \E c \in Conn : Take(c) \/ Use(c)
    \/ Sweep \/ GoBad \/ CloseShelf

ShelfSpec == ShelfInit /\ [][ShelfNext]_shelfVars
=============================================================================
