------------------------------- MODULE PidFile -------------------------------
(***************************************************************************)
(* PidFileGuard (supervisor-lib/src/util/pidfile.h): daemons that are      *)
(* started with the same pidfile.  Each system call of the constructor and *)
(* of the destructor is a step, and the daemons' steps interleave.         *)
(*                                                                         *)
(* The path names an inode; the lock of flock(2) belongs to the inode, not *)
(* to the path, and goes when its holder closes the file or dies.          *)
(***************************************************************************)
CONSTANTS
  Daemons,  \* the processes that run supervisord
  Inodes,   \* the files there may be
  NoInode   \* the path or the descriptor names no file

ASSUME InodesAssumption == NoInode \notin Inodes

VARIABLES
  pc,    \* where each daemon is in the life of its guard
  fd,    \* fd_, as the inode it is open on
  path,  \* the inode the path names
  text,  \* whose process id is in each inode, or "" when it is empty
  lock   \* who holds the lock of each inode

vars == <<pc, fd, path, text, lock>>

Empty  == ""
Nobody == "nobody"

ASSUME DaemonsAssumption == Nobody \notin Daemons

(***************************************************************************)
(* "none": no guard; "opened" and "locked": in the constructor;            *)
(* "guarding": the daemon runs; "closed": the destructor has closed fd_    *)
(* and not yet removed the file.                                           *)
(***************************************************************************)
Places == {"none", "opened", "locked", "guarding", "closed"}

\* fd_ is open from the open(2) to the close(2), and no longer.
TypeOK == /\ pc \in [Daemons -> Places]
          /\ fd \in [Daemons -> Inodes \cup {NoInode}]
          /\ path \in Inodes \cup {NoInode}
          /\ text \in [Inodes -> Daemons \cup {Empty}]
          /\ lock \in [Inodes -> Daemons \cup {Nobody}]
          /\ \A d \in Daemons : fd[d] # NoInode <=> pc[d] \in {"opened", "locked", "guarding"}

Init == /\ pc = [d \in Daemons |-> "none"]
        /\ fd = [d \in Daemons |-> NoInode]
        /\ path = NoInode
        /\ text = [i \in Inodes |-> Empty]
        /\ lock = [i \in Inodes |-> Nobody]

-----------------------------------------------------------------------------
InUse(i) == i = path \/ \E d \in Daemons : fd[d] = i

Goto(d, place) == pc' = [pc EXCEPT ![d] = place]

\* close(2), or the end of the process: the descriptor and its lock are gone.
Release(d) ==
  /\ fd' = [fd EXCEPT ![d] = NoInode]
  /\ lock' = [i \in Inodes |-> IF lock[i] = d THEN Nobody ELSE lock[i]]

\* open(O_CREAT | O_TRUNC): the file is created, or emptied.
Open(d) ==
  /\ pc[d] = "none"
  /\ \E i \in Inodes :
       /\ IF path = NoInode THEN ~InUse(i) ELSE i = path
       /\ path' = i
       /\ fd' = [fd EXCEPT ![d] = i]
       /\ text' = [text EXCEPT ![i] = Empty]
  /\ Goto(d, "opened")
  /\ UNCHANGED lock

\* Mutant: the lock is not exclusive.
MayLockShared(d) == TRUE

\* flock(LOCK_EX | LOCK_NB) finds the file unlocked.
MayLock(d) == lock[fd[d]] = Nobody

Lock(d) ==
  /\ pc[d] = "opened" /\ MayLock(d)
  /\ lock' = [lock EXCEPT ![fd[d]] = d]
  /\ Goto(d, "locked")
  /\ UNCHANGED <<fd, path, text>>

\* Mutant: the file is removed as in the destructor.
PathAfterFailureRemoved == NoInode

\* The path when the constructor has thrown: the file stays.
PathAfterFailure == path

\* Mutant: the descriptor is leaked.
GiveUpLeaks(d) == Goto(d, "none") /\ UNCHANGED <<fd, lock>>

\* The constructor closes the file and throws.
GiveUp(d) == Goto(d, "none") /\ Release(d)

\* Another daemon holds the lock: the constructor throws and supervisord ends.
LockFails(d) ==
  /\ pc[d] = "opened" /\ ~MayLock(d)
  /\ GiveUp(d) /\ path' = PathAfterFailure
  /\ UNCHANGED text

\* write(2) puts the process id into the file.
Write(d) ==
  /\ pc[d] = "locked"
  /\ text' = [text EXCEPT ![fd[d]] = d]
  /\ Goto(d, "guarding")
  /\ UNCHANGED <<fd, path, lock>>

WriteFails(d) ==
  /\ pc[d] = "locked"
  /\ GiveUp(d) /\ path' = PathAfterFailure
  /\ UNCHANGED text

\* The destructor closes the file ...
Close(d) ==
  /\ pc[d] = "guarding"
  /\ Release(d)
  /\ Goto(d, "closed")
  /\ UNCHANGED <<path, text>>

\* ... and removes what has its name now.
Remove(d) ==
  /\ pc[d] = "closed"
  /\ path' = NoInode
  /\ Goto(d, "none")
  /\ UNCHANGED <<fd, text, lock>>

\* The daemon is killed: the file stays.
Crash(d) ==
  /\ pc[d] # "none"
  /\ Release(d)
  /\ Goto(d, "none")
  /\ UNCHANGED <<path, text>>

Others(d) == Lock(d) \/ LockFails(d) \/ Write(d) \/ WriteFails(d) \/ Remove(d) \/ Crash(d)

Next == \E d \in Daemons : Open(d) \/ Close(d) \/ Others(d)

(***************************************************************************)
(* The same, when no constructor overlaps a destructor: nobody opens the   *)
(* file between a close and the remove that follows it, or closes it while *)
(* somebody is between its open and its lock.                              *)
(***************************************************************************)
Nowhere(place) == \A d \in Daemons : pc[d] # place

CalmNext ==
  \E d \in Daemons : \/ Nowhere("closed") /\ Open(d)
                     \/ Nowhere("opened") /\ Close(d)
                     \/ Others(d)

Spec     == Init /\ [][Next]_vars
CalmSpec == Init /\ [][CalmNext]_vars

-----------------------------------------------------------------------------
\* At most one daemon runs with the pidfile.
OneDaemon ==
  \A c, d \in Daemons : pc[c] = "guarding" /\ pc[d] = "guarding" => c = d

\* The file at the path is the one the running daemon has locked, so that the next
\* daemon meets the lock.
PathIsLocked ==
  \A d \in Daemons : pc[d] = "guarding" => path = fd[d] /\ lock[path] = d

\* The pidfile never holds the process id of another daemon than the running one.
\* It may be empty: a daemon that is refused has emptied it with its open(2).
PidfileNamesNoOther ==
  \A d \in Daemons : pc[d] = "guarding" => text[fd[d]] \in {d, Empty}
=============================================================================
