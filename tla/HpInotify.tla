------------------------------ MODULE HpInotify ------------------------------
(***************************************************************************)
(* The file watches of hp_inotify.c.  An entry has a path and the number   *)
(* of its watch, 0 while the path does not exist.  The kernel (external)   *)
(* watches inodes, not paths, has one watch per inode, and queues events.  *)
(*                                                                         *)
(* Files are removed and made by others at any time.  A removed file keeps *)
(* its inode, and its watch, while somebody has it open.                   *)
(***************************************************************************)
EXTENDS Integers, Sequences, FiniteSets, SequencesExt

CONSTANTS
  Paths,        \* file names, as sequences
  MaxIents,     \* bound: entries
  MaxInodes,    \* bound: files made
  MaxWatch,     \* bound: watches made
  MaxEvents     \* bound: events queued when others change files

VARIABLES
  dir,          \* inode of each path, 0 if there is none
  inodes,       \* inodes made so far
  watches,      \* set of [wd, ino]
  wds,          \* watches made so far
  ievents,      \* events queued: Seq of [wd, modify]
  ients,        \* Seq of [path, wd]
  iopen,        \* whether ifd is open and registered
  hooked,       \* epoll_before_wait is the loop's before_wait
  dirty,        \* paths changed while watched, fn not called since
  lost          \* paths made anew before the loop read that the file was gone, or
                \* whose watch went with another entry's

kernel == <<dir, inodes, watches, wds>>
inotifyVars == <<dir, inodes, watches, wds, ievents, ients, iopen, hooked, dirty, lost>>
Listed == {ients[k].path : k \in 1..Len(ients)}
WatchOf(ino) == {w.wd : w \in {v \in watches : v.ino = ino}}

InotifyInit ==
  /\ dir = [p \in Paths |-> 0] /\ inodes = 0
  /\ watches = {} /\ wds = 0 /\ ievents = <<>>
  /\ ients = <<>> /\ iopen = TRUE /\ hooked \in BOOLEAN
  /\ dirty = {} /\ lost = {}

\* Whether the loop has not read yet that the file of a watch went away
EndUnread(wd) == \E i \in 1..Len(ievents) : ievents[i] = [wd |-> wd, modify |-> FALSE]
-----------------------------------------------------------------------------
(* Others *)

FileMade(p) ==
  /\ dir[p] = 0 /\ inodes < MaxInodes
  /\ inodes' = inodes + 1
  /\ dir' = [dir EXCEPT ![p] = inodes + 1]
  /\ lost' = IF \E k \in 1..Len(ients) : ients[k].path = p /\ EndUnread(ients[k].wd)
               THEN lost \cup {p} ELSE lost
  /\ UNCHANGED <<watches, wds, ievents, ients, iopen, hooked, dirty>>

FileChanged(p) ==
  /\ dir[p] # 0 /\ Len(ievents) < MaxEvents
  /\ \E wd \in WatchOf(dir[p]) :
       /\ ievents' = Append(ievents, [wd |-> wd, modify |-> TRUE])
       /\ dirty' = IF p \in Listed \ lost THEN dirty \cup {p} ELSE dirty
  /\ UNCHANGED <<kernel, ients, iopen, hooked, lost>>

\* The watch goes with the file, or stays while the file is open somewhere.
FileRemoved(p) ==
  /\ dir[p] # 0 /\ Len(ievents) < MaxEvents
  /\ dir' = [dir EXCEPT ![p] = 0]
  /\ dirty' = dirty \ {p}
  /\ LET W == {w \in watches : w.ino = dir[p]}
     IN  /\ ievents' = IF W = {} THEN ievents
                       ELSE Append(ievents, [wd |-> (CHOOSE w \in W : TRUE).wd, modify |-> FALSE])
         /\ \E gone \in BOOLEAN : watches' = IF gone THEN watches \ W ELSE watches
  /\ UNCHANGED <<inodes, wds, ients, iopen, hooked, lost>>
-----------------------------------------------------------------------------
(* hp_inotify *)

\* inotify_add_watch: an inode that is watched keeps its number.
Watched(p) ==
  LET W == WatchOf(dir[p])
  IN  IF W # {} THEN CHOOSE wd \in W : TRUE ELSE wds + 1

AddWatch(p) ==
  /\ wds' = IF Watched(p) > wds THEN wds + 1 ELSE wds
  /\ watches' = watches \cup {[wd |-> Watched(p), ino |-> dir[p]]}

hp_inotify_add(p) ==
  /\ iopen /\ Len(ients) < MaxIents /\ wds < MaxWatch
  /\ dir[p] # 0
  /\ AddWatch(p)
  /\ ients' = Append(ients, [path |-> p, wd |-> Watched(p)])
  /\ UNCHANGED <<dir, inodes, ievents, iopen, hooked, dirty, lost>>

\* inotify_rm_watch, which queues an event that the watch ended
RmWatch(wd) ==
  /\ watches' = {w \in watches : w.wd # wd}
  /\ ievents' = IF \E w \in watches : w.wd = wd
                  THEN Append(ievents, [wd |-> wd, modify |-> FALSE]) ELSE ievents

\* cmp_by_name compares as far as the name given goes.
hp_inotify_del(p) ==
  /\ iopen
  /\ \E k \in 1..Len(ients) :
       /\ IsPrefix(p, ients[k].path)
       /\ \A j \in 1..k - 1 : ~IsPrefix(p, ients[j].path)
       /\ RmWatch(ients[k].wd)
       /\ ients' = RemoveAt(ients, k)
       /\ LET others == {ients'[j].path : j \in {i \in 1..Len(ients') :
                                  ients'[i].wd = ients[k].wd /\ ients[k].wd # 0}}
          IN  /\ lost' = lost \cup others
              /\ dirty' = dirty \ ({ients[k].path} \cup others)
  /\ UNCHANGED <<dir, inodes, wds, iopen, hooked>>

\* Mutant: the entry keeps the number of the watch it had.
Bad_Unwatched(e) == e

Unwatched(e) == [e EXCEPT !.wd = 0]

\* Mutant: the first entry is left out.
Bad_Told(E) == {ients[k].path : k \in E \ {1}}

\* The entries whose fn is called for a change
Told(E) == {ients[k].path : k \in E}

\* hp_inotify_iread_event, for one event: entries whose file is gone lose their
\* watch, the others are told of a change.
hp_inotify_iread_event ==
  /\ iopen /\ ievents # <<>>
  /\ LET ev == Head(ievents)
         E == {k \in 1..Len(ients) : ients[k].wd = ev.wd}
         Gone == {k \in E : dir[ients[k].path] = 0}
     IN  /\ ients' = [k \in DOMAIN ients |-> IF k \in Gone THEN Unwatched(ients[k]) ELSE ients[k]]
         /\ watches' = IF Gone # {} THEN {w \in watches : w.wd # ev.wd} ELSE watches
         /\ dirty' = IF ev.modify THEN dirty \ Told(E \ Gone) ELSE dirty
         /\ ievents' = IF watches' # watches
                         THEN Append(Tail(ievents), [wd |-> ev.wd, modify |-> FALSE])
                         ELSE Tail(ievents)
  /\ UNCHANGED <<dir, inodes, wds, iopen, hooked, lost>>

Missing == {k \in 1..Len(ients) : ients[k].wd = 0 /\ dir[ients[k].path] # 0}

\* One round of its loop; the file is opened again by the user's open.
epoll_before_wait ==
  /\ hooked /\ iopen /\ wds < MaxWatch
  /\ \E k \in Missing :
       /\ \A j \in Missing : k <= j
       /\ AddWatch(ients[k].path)
       /\ ients' = [ients EXCEPT ![k].wd = Watched(ients[k].path)]
  /\ UNCHANGED <<dir, inodes, ievents, iopen, hooked, dirty, lost>>

\* epoll_dl_handle_ii with EPOLLERR, and hp_inotify_uninit: every fn is told, the
\* descriptor is closed.
hp_inotify_ends ==
  /\ iopen
  /\ iopen' = FALSE
  /\ watches' = {} /\ ievents' = <<>> /\ dirty' = {}
  /\ \E S \in {ients, <<>>} : ients' = S
  /\ UNCHANGED <<dir, inodes, wds, hooked, lost>>

InotifyNext ==
  \/ \E p \in Paths : FileMade(p) \/ FileChanged(p) \/ FileRemoved(p)
                      \/ hp_inotify_add(p) \/ hp_inotify_del(p)
  \/ hp_inotify_iread_event \/ epoll_before_wait \/ hp_inotify_ends
InotifySpec == InotifyInit /\ [][InotifyNext]_inotifyVars

\* The loop runs in mode 1.
InotifyFair ==
  /\ WF_inotifyVars(hp_inotify_iread_event)
  /\ WF_inotifyVars(epoll_before_wait)
-----------------------------------------------------------------------------
\* A watch has one number and one inode.
InotifyTypeOK ==
  /\ \A k \in 1..Len(ients) : ients[k].path \in Paths /\ ients[k].wd \in 0..wds
  /\ \A v, w \in watches : v.wd = w.wd <=> v.ino = w.ino
  /\ lost \subseteq Paths /\ dirty \subseteq Listed

\* An entry whose file exists is watched, or known not to be (and then watched
\* again by epoll_before_wait), whatever others do to the file, unless it was
\* replaced before the loop saw that it was gone, or the entry shared its watch
\* with one that was deleted.
WatchedOrKnown ==
  iopen => \A k \in 1..Len(ients) :
    dir[ients[k].path] # 0 /\ ients[k].path \notin lost =>
      \/ ients[k].wd = 0
      \/ [wd |-> ients[k].wd, ino |-> dir[ients[k].path]] \in watches

\* A change of a watched file reaches fn of every entry, unless the file goes
\* away first.
ChangeReported == \A p \in Paths : p \in dirty ~> p \notin dirty \/ p \in lost

\* A file that was away and is back is watched again, if epoll_before_wait runs.
WatchedAgain ==
  \A p \in Paths :
    hooked /\ iopen /\ (\E k \in 1..Len(ients) : ients[k].path = p /\ ients[k].wd = 0) /\ dir[p] # 0
      ~> \/ p \notin Listed \/ dir[p] = 0 \/ p \in lost \/ ~iopen \/ wds = MaxWatch
         \/ WatchOf(dir[p]) # {}

\* Entries, watches and files belong together while others change the files.
WatchesSound == InotifyTypeOK /\ WatchedOrKnown

\* Changes are reported, also of a file that was away for a while.
ChangesSeen == ChangeReported /\ WatchedAgain
=============================================================================
