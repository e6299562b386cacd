-------------------------------- MODULE Tree --------------------------------
(***************************************************************************)
(* The file tree: path lookup (fs/node.rs), directories and their locations *)
(* (fs/node/directory.rs), tmpfs (fs/node/tmpfs.rs), mounted devtmpfs and   *)
(* procfs, and the path calls of user/process/syscall.rs. A directory knows *)
(* its entries and, separately, where it is. A call looks its paths up one  *)
(* segment at a time, holding no lock from one to the next, and then acts   *)
(* on the directories that it found, which others may have moved or removed *)
(* since. Locks are explicit where one is held while another is awaited.    *)
(* A call refused for want of permission changes nothing and is left out.   *)
(***************************************************************************)
EXTENDS Naturals, Sequences, SequencesExt, FiniteSetsExt

CONSTANTS Thread,
          Dirs, Root,         \* directories of tmpfs; Root is the first
          Others,             \* files, fifos and devices of tmpfs
          Links,              \* symbolic links
          Mounts,             \* roots of mounted file systems
          Pids, Self,         \* processes that procfs shows, and the callers' one
          Fds, ExePath,       \* that process's open descriptors and executable
          Names,
          Targets,            \* paths that symbolic links hold
          RECURSION_LIMIT,    \* links that a call follows
          Scenes              \* bound: trees to start from, each with the other nodes
                              \* there may be, the paths that calls name and how many
                              \* calls each thread makes

VARIABLES items,      \* the entries of each directory: name -> node
          loc,        \* where each directory believes to be: <<parent, name>>
          fs,         \* the root of the file system of each directory
          links,      \* link counts of files
          target,     \* what each symbolic link holds
          thread,     \* [cwd, left, pc, ...] of each thread
          stale,      \* directories out of the tree, or whose location was left behind (history)
          overlapped, \* two moves between directories have overlapped (history)
          scene       \* the scene of this run

vars == <<items, loc, fs, links, target, thread, stale, overlapped, scene>>

Nowhere == <<>>
Missing == <<>>
Empty == [n \in {} |-> 0]
Put(f, n, x) == [k \in DOMAIN f \cup {n} |-> IF k = n THEN x ELSE f[k]]
Without(f, n) == [k \in DOMAIN f \ {n} |-> f[k]]
AllDirs == Dirs \cup Mounts
Entries(its) == {<<d, n>> \in AllDirs \X Names : n \in DOMAIN its[d]}
CountOf(x, its) == Quantify(Entries(its), LAMBDA e : its[e[1]][e[2]] = x)

\* Nodes that procfs makes up: the link to the caller's process, the directory
\* of a process and of its descriptors, and what is in those.
ProcRoot == <<"proc">>
ProcEntry(name) == <<"proc", name>>
ProcessItem(d, name) == Append(d, name)
FdItem(d, name) == Append(d, name)

IsProc(x) == x \notin AllDirs \cup Others \cup Links
IsProcessDir(x) == IsProc(x) /\ Len(x) = 2 /\ x[2] \in Pids
IsFdDir(x) == IsProc(x) /\ Len(x) = 3 /\ x[3] = "fd"
IsDir(x) == x \in AllDirs \/ IsProcessDir(x) \/ IsFdDir(x)
\* procfs answers every call that would change it with an error.
Writable(x) == x \in AllDirs \ {ProcRoot}
\* rename, exchange and link stay inside one file system.
SameFs(x, y) == fs[x] = fs[y]

NewFs(d) == IF d \in Dirs THEN Root ELSE d

Init ==
    \E s \in Scenes :
        /\ scene = s
        /\ items = [d \in AllDirs |-> IF d \in DOMAIN s.tree THEN s.tree[d] ELSE Empty]
        /\ loc = [d \in AllDirs |->
                    IF CountOf(d, items) = 0 THEN Nowhere
                    ELSE CHOOSE e \in Entries(items) : items[e[1]][e[2]] = d]
        /\ fs = [d \in AllDirs |-> NewFs(d)]
        /\ links = [f \in Others |-> CountOf(f, items)]
        /\ target = [l \in Links |-> IF CountOf(l, items) = 0 THEN Nowhere ELSE s.target]
        /\ thread = [t \in Thread |-> [cwd |-> Root, left |-> s.calls, pc |-> "run"]]
        /\ stale = {}
        /\ overlapped = FALSE

-----------------------------------------------------------------------------
(* Reference counts: a directory is there as long as an entry or a thread    *)
(* refers to it, and the entries of one that goes away go with it.          *)
Used(th) ==
    {th.cwd} \cup CASE th.pc = "run"  -> {}
                    [] th.pc = "look" -> {th.look.dir, th.look.node} \cup
                                         (IF th.look.first = Missing THEN {} ELSE {th.look.first[1]})
                    [] OTHER          -> {th.from, th.to, th.at}
Held(ths) ==
    LET used == UNION {Used(ths[t]) : t \in Thread}
    IN {Root} \cup used \cup (IF \E x \in used : IsProc(x) THEN {ProcRoot} ELSE {})
RECURSIVE Live(_, _, _)
Live(dirs, its, held) ==
    LET named == {its[e[1]][e[2]] : e \in {e \in Entries(its) : e[1] \in dirs}}
        keep == {d \in dirs : d \in held \/ d \in named}
    IN IF keep = dirs THEN dirs ELSE Live(keep, its, held)

\* A location only names its parent as long as there is one.
Upgradable(lc, live) ==
    [d \in AllDirs |-> IF d \in live /\ lc[d] # Nowhere /\ lc[d][1] \in live THEN lc[d]
                       ELSE Nowhere]

\* The step's end, with the new entries, threads, link counts, locations and
\* stale directories, before the entries of directories that went away were
\* dropped. A directory that nothing names any more is out of the tree, and
\* those that were put into it meanwhile go with it.
Settle(its, th, ln, lc, st, tg) ==
    \E held \in {Held(th)} : \E live \in {Live(AllDirs, its, held)} :
    \E kept \in {[d \in AllDirs |-> IF d \in live THEN its[d] ELSE Empty]} :
       /\ items' = kept
       /\ thread' = th
       /\ links' = [f \in Others |-> ln[f] - (CountOf(f, its) - CountOf(f, kept))]
       /\ loc' = Upgradable(lc, live)
       /\ fs' = [d \in AllDirs |->
                    IF d \in Mounts \/ d \notin live THEN NewFs(d)
                    ELSE IF loc[d] = Nowhere /\ lc[d] # Nowhere THEN fs[lc[d][1]] ELSE fs[d]]
       /\ stale' = (st \cup {d \in AllDirs \ {Root} : CountOf(d, kept) = 0}) \cap live
       /\ target' = [l \in Links |-> IF CountOf(l, kept) = 0 /\ l \notin held THEN Nowhere
                                     ELSE tg[l]]
       /\ UNCHANGED scene

\* A step that only moves a thread on.
Moves(th) == Settle(items, th, links, loc, stale, target)

Adjust(f, by) == [g \in Others |-> IF g = f THEN links[g] + by - 1 ELSE links[g]]
Dropped(x) == Adjust(x, 0)
Cloned(x) == Adjust(x, 2)

\* The directory locks that a thread holds over several steps: those of the
\* directories in which a removal or a move takes place.
Holds(t) == IF thread[t].pc \in {"run", "look"} THEN {} ELSE {thread[t].from, thread[t].to}
Locked == UNION {Holds(t) : t \in Thread}
Free(d) == Writable(d) /\ d \notin Locked

-----------------------------------------------------------------------------
(* Lookup. A lookup has the node that it is at and the directory it was      *)
(* found in, the rest of the path, how many more links may be followed, the  *)
(* directory and the name that the call's other path led to, and what the    *)
(* call is, as far as it matters on the way. One without a node has failed.  *)
Fresh(start, path, op) ==
    [dir |-> start, node |-> start, rest |-> path, fuel |-> RECURSION_LIMIT, first |-> Missing,
     op |-> op]

get_node(d, name) ==
    CASE d = ProcRoot /\ name \in Pids \cup {"self"}            -> ProcEntry(name)
      [] IsProcessDir(d) /\ name \in {"fd", "exe", "maps"}      -> ProcessItem(d, name)
      [] IsFdDir(d) /\ name \in Fds                             -> FdItem(d, name)
      [] d \in AllDirs /\ name \in DOMAIN items[d]              -> items[d][name]
      [] OTHER                                                  -> Missing

\* What procfs makes up holds its parent; the others look theirs up.
Parent(d) ==
    IF IsProc(d) THEN Front(d)
    ELSE IF d = Root THEN Root
    ELSE IF loc[d] = Nowhere THEN Missing ELSE loc[d][1]

SelfLink == ProcEntry("self")
IsExeLink(x) == IsProc(x) /\ Len(x) = 3 /\ x[3] = "exe"
IsFdLink(x) == IsProc(x) /\ Len(x) = 4
IsLink(x) == x \in Links \/ x = SelfLink \/ IsExeLink(x) \/ IsFdLink(x)

\* One link: a path is looked up from where the link is, and then the rest;
\* /proc/self is the caller's process, and a descriptor's link the open file.
FollowPath(l, path) == [l EXCEPT !.node = l.dir, !.rest = path \o @]
try_resolve_link(l) ==
    CASE l.node \in Links  -> FollowPath(l, target[l.node])
      [] IsExeLink(l.node) -> FollowPath(l, ExePath)
      [] l.node = SelfLink -> [l EXCEPT !.node = ProcEntry(Self)]
      [] IsFdLink(l.node)  -> [l EXCEPT !.node = Append(@, "open")]

follow_symlink(l) == [l EXCEPT !.fuel = @ - 1]
resolve_links(l) ==
    IF l.fuel = 0 THEN [l EXCEPT !.node = Missing] ELSE try_resolve_link(follow_symlink(l))

\* One segment, from a node that is no link.
lookup_node_with_parent(l) ==
    LET on == [l EXCEPT !.rest = Tail(@), !.op = IF Len(l.rest) = 1 THEN "end" ELSE @]
        To(dir, node) == [on EXCEPT !.dir = dir, !.node = node]
        seg == Head(l.rest)
    IN IF seg = "/" THEN To(Root, Root)
       ELSE IF ~IsDir(l.node) THEN To(Missing, Missing)
       ELSE CASE seg = ".." -> To(Parent(l.node), Parent(l.node))
              [] seg = "."  -> on
              [] OTHER      -> To(l.node, get_node(l.node, seg))

\* find_parent has found the directory of the path's last segment, a name.
find_parent(l) ==
    Len(l.rest) = 1 /\ Head(l.rest) \in Names /\ IsDir(l.node) /\ l.node \notin Locked

\* Links are followed before each segment. At the last one, calls that change
\* the directory stop; lookup_and_resolve_node goes on, and follows the links
\* that it ends at.
Stops(l) ==
    /\ ~IsLink(l.node)
    /\ Len(l.rest) = 0 \/ (Len(l.rest) = 1 /\ (l.op \notin {"any", "end"} \/ l.first # Missing))
Step(l) == IF IsLink(l.node) THEN resolve_links(l) ELSE lookup_node_with_parent(l)

\* The lookups of thread t: the one under way, or those that it may begin, from
\* its working directory or, for mount, from the root.
Lookups(t) ==
    IF thread[t].pc = "look" THEN {thread[t].look}
    ELSE IF thread[t].pc # "run" \/ thread[t].left = 0 THEN {}
    ELSE {Fresh(thread[t].cwd, path, "any") : path \in scene.paths}
         \cup {Fresh(Root, path, "mount") : path \in IF scene.nodes \cap Mounts = {} THEN {}
                                                    ELSE scene.paths}

Left(t) == IF thread[t].pc = "run" THEN thread[t].left - 1 ELSE thread[t].left
Run(t) == [thread EXCEPT ![t] = [cwd |-> @.cwd, left |-> Left(t), pc |-> "run"]]
Look(t, l) == [thread EXCEPT ![t] = [cwd |-> @.cwd, left |-> Left(t), pc |-> "look", look |-> l]]

\* A thread takes a step of a lookup, once the directory's lock is free, and
\* the call returns when that fails.
LookUp(t, l) ==
    /\ ~Stops(l) /\ l.node \notin Locked
    /\ \E next \in {Step(l)} :
          IF next.node = Missing THEN thread[t].pc = "look" /\ Moves(Run(t)) ELSE Moves(Look(t, next))
    /\ UNCHANGED overlapped

\* A call returns whose lookup is over, with an error or because it only reads.
Return(t) ==
    /\ thread[t].pc = "look"
    /\ Stops(thread[t].look) \/ find_parent(thread[t].look)
    /\ thread[t].look.node \notin Locked
    /\ Moves(Run(t))
    /\ UNCHANGED overlapped

-----------------------------------------------------------------------------
(* Operations with one path: d is the directory that the lookup led to, and   *)
(* name the name in it.                                                      *)
Unborn(x) == CountOf(x, items) = 0 /\ x \notin Held(thread)

Mkdir(t, d, name, new) ==
    /\ Free(d) /\ name \notin DOMAIN items[d]
    /\ Settle([items EXCEPT ![d] = Put(@, name, new), ![new] = Empty], Run(t), links,
              [loc EXCEPT ![new] = <<d, name>>], stale \ {new}, target)

CreateNode(t, d, name, new) ==
    /\ Free(d) /\ name \notin DOMAIN items[d] /\ Unborn(new)
    /\ Settle([items EXCEPT ![d] = Put(@, name, new)], Run(t), [links EXCEPT ![new] = 1],
              loc, stale, target)

\* A fifo or a device: unlike for a file, an entry of that name is an error.
CreateSpecial(t, d, name, new) == CreateNode(t, d, name, new)

Symlink(t, d, name, new, to) ==
    /\ Free(d) /\ name \notin DOMAIN items[d] /\ Unborn(new)
    /\ Settle([items EXCEPT ![d] = Put(@, name, new)], Run(t), links, loc, stale,
              [target EXCEPT ![new] = to])

\* mount puts the file system's root over whatever had the name.
Mount(t, d, name, root) ==
    LET old == get_node(d, name) IN
    /\ Free(d) /\ Unborn(root) /\ loc[root] = Nowhere
    /\ Settle([items EXCEPT ![d] = Put(@, name, root)], Run(t), Dropped(old),
              [loc EXCEPT ![root] = <<d, name>>], stale \cup ({old} \cap AllDirs), target)

\* A thread with the locks of directories from and to, which it keeps over the
\* steps to come; at is how far a move's walk is.
Lock(t, pc, from, old, to, new, at) ==
    [thread EXCEPT ![t] = [cwd |-> @.cwd, left |-> Left(t), pc |-> pc, from |-> from, old |-> old,
                           to |-> to, new |-> new, at |-> at]]

\* unlink of what is no directory is one step; whether it is a directory is
\* asked with the lock of both, the parent's first.
Unlink(t, d, name) ==
    LET x == get_node(d, name) IN
    /\ Free(d) /\ x # Missing
    /\ IF x \in Others \cup Links
       THEN Settle([items EXCEPT ![d] = Without(@, name)], Run(t), Dropped(x), loc, stale, target)
       ELSE Moves(Lock(t, "unlink", d, name, d, name, d))

RmdirLock(t, d, name) ==
    /\ Free(d) /\ get_node(d, name) \in AllDirs
    /\ Moves(Lock(t, "rmdir", d, name, d, name, d))

\* The lock that a thread waits for while it holds others: a removal looks into
\* the entry if it is a directory, and a move into a directory that it replaces.
Entry(th) == items[th.from][th.old]
Replaced(th) == get_node(th.to, th.new)
Wants(t) ==
    LET th == thread[t] IN
    CASE th.pc \in {"unlink", "rmdir"}            -> {Entry(th)} \ {ProcRoot}
      [] th.pc = "rename" /\ th.at = Root /\ Entry(th) \in Dirs -> {Replaced(th)} \cap Dirs
      [] OTHER                                    -> {}
Waits(t) == Wants(t) \cap Locked # {}

\* The removal has looked into the directory: unlink fails, and rmdir goes on
\* with the parent's lock alone when the directory is empty.
RmdirCheck(t) ==
    LET th == thread[t] IN
    /\ th.pc \in {"unlink", "rmdir"} /\ ~Waits(t)
    /\ IF th.pc = "rmdir" /\ Entry(th) # ProcRoot /\ items[Entry(th)] = Empty
       THEN Moves([thread EXCEPT ![t].pc = "remove"])
       ELSE Moves(Run(t))
    /\ UNCHANGED overlapped

Rmdir(t) ==
    LET th == thread[t] IN
    /\ th.pc = "remove"
    /\ Settle([items EXCEPT ![th.from] = Without(@, th.old)], Run(t), links, loc,
              stale \cup {Entry(th)}, target)
    /\ UNCHANGED overlapped

\* chdir goes to whatever there is, a directory or not.
Chdir(t, l) ==
    /\ l.rest = <<>> /\ ~IsLink(l.node)
    /\ Moves([Run(t) EXCEPT ![t].cwd = l.node])

-----------------------------------------------------------------------------
(* Operations with two paths.                                               *)

\* link and linkat, to a file or a link but not to a directory.
Link(t, from, old, to, new) ==
    LET x == get_node(from, old) IN
    /\ x \in Others \cup Links /\ new \notin DOMAIN items[to]
    /\ Settle([items EXCEPT ![to] = Put(@, new, x)], Run(t), Cloned(x), loc, stale, target)

\* can_rename: what may take whose place.
CanReplace(x, y) ==
    \/ y = Missing
    \/ x \in Others \cup Links /\ y \in Others \cup Links
    \/ x \in Dirs /\ y \in Dirs /\ items[y] = Empty

\* A moved directory keeps the location it had.
Unmoved(x, d, n) == loc

Moved(x, d, n) == IF x \in Dirs THEN [loc EXCEPT ![x] = <<d, n>>] ELSE loc

\* A move takes the locks of both directories at once. Inside one directory
\* there is no walk.
TwoLocks(t, pc, from, old, to, new) ==
    /\ Free(from) /\ Free(to) /\ SameFs(from, to)
    /\ get_node(from, old) # Missing
    /\ pc = "exchange" => get_node(to, new) # Missing
    /\ from = to => old # new
    /\ Moves(Lock(t, pc, from, old, to, new, IF from = to THEN Root ELSE to))
    /\ overlapped' = (overlapped \/ (from # to /\ \E u \in Thread :
                          thread[u].pc \in {"rename", "exchange"} /\ thread[u].from # thread[u].to))

\* Between directories it walks up from the new one, giving up at the entry in
\* question: the one that moves there, and for an exchange the one that moves
\* away.
Checked(th) == IF th.pc = "rename" THEN Entry(th) ELSE Replaced(th)

Walk(t) ==
    LET th == thread[t] IN
    /\ th.pc \in {"rename", "exchange"} /\ th.at # Root
    /\ IF th.at = Checked(th) \/ Parent(th.at) = Missing
       THEN Moves(Run(t))
       ELSE Moves([thread EXCEPT ![t].at = Parent(th.at)])
    /\ UNCHANGED overlapped

\* Then it moves the entry. When a directory takes the place of another, that
\* one's lock is needed, and for the directory that the entry comes from it is
\* the thread's own: it waits for ever.
RenameDo(t) ==
    LET th == thread[t]
        x == Entry(th)
        y == Replaced(th) IN
    /\ th.pc = "rename" /\ th.at = Root /\ ~Waits(t)
    /\ IF CanReplace(x, y)
       THEN Settle([items EXCEPT ![th.from] = Without(@, th.old), ![th.to] = Put(@, th.new, x)],
                   Run(t), Dropped(y), Moved(x, th.to, th.new),
                   stale \cup ({x} \cap Mounts) \cup ({y} \cap AllDirs), target)
       ELSE Moves(Run(t))
    /\ UNCHANGED overlapped

\* exchange gives a location to the entry that moved away from the new name,
\* and it is the one it had.
ExchangeDo(t) ==
    LET th == thread[t]
        x == Entry(th)
        y == Replaced(th) IN
    /\ th.pc = "exchange" /\ th.at = Root
    /\ Settle([items EXCEPT ![th.from] = Put(@, th.old, y), ![th.to] = Put(@, th.new, x)],
              Run(t), links, Moved(y, th.to, th.new), stale \cup ({x, y} \cap AllDirs), target)
    /\ UNCHANGED overlapped

-----------------------------------------------------------------------------
(* fs/node.rs, with the lookup l of the path, or of the second one, over.    *)
OnePath(l) == find_parent(l) /\ l.op = "any" /\ l.first = Missing
TwoPaths(l) == find_parent(l) /\ l.op = "any" /\ l.first # Missing
Name(l) == Head(l.rest)

\* A link at the end of the path of a file to create, or of a file to link to,
\* is looked up from its directory, as part of the same call.
Again(t, l, link, op) ==
    /\ link \in Links /\ l.fuel > 0
    /\ Moves(Look(t, [follow_symlink(l) EXCEPT !.dir = l.node, !.rest = target[link], !.op = op]))

create_file(t, l, new) ==
    /\ find_parent(l) /\ l.op \in {"any", "create"} /\ l.first = Missing /\ Writable(l.node)
    /\ \/ CreateNode(t, l.node, Name(l), new)
       \/ Again(t, l, get_node(l.node, Name(l)), "create")
create_fifo(t, l, new) == OnePath(l) /\ CreateSpecial(t, l.node, Name(l), new)
create_directory(t, l) ==
    /\ OnePath(l)
    /\ \E unborn \in {{d \in Dirs : Unborn(d)}} :
          unborn # {} /\ Mkdir(t, l.node, Name(l), CHOOSE d \in unborn : TRUE)
create_link(t, l, new, to) == OnePath(l) /\ Symlink(t, l.node, Name(l), new, to)
unlink_file(t, l) == OnePath(l) /\ Unlink(t, l.node, Name(l))
unlink_dir(t, l) == OnePath(l) /\ RmdirLock(t, l.node, Name(l))

\* The calls with two paths look up the old one first; link looks up the new
\* one first, and follows a link at the end of the old one if it is asked to.
SecondPath(t, l) ==
    /\ OnePath(l)
    /\ \E path \in scene.paths :
          Moves(Look(t, [Fresh(thread[t].cwd, path, "any") EXCEPT
                            !.fuel = l.fuel, !.first = <<l.node, Name(l)>>]))
hard_link(t, l) ==
    /\ TwoPaths(l) \/ (find_parent(l) /\ l.op = "link")
    /\ Free(l.node) /\ Free(l.first[1]) /\ SameFs(l.node, l.first[1])
    /\ \/ Link(t, l.node, Name(l), l.first[1], l.first[2])
       \/ Again(t, l, get_node(l.node, Name(l)), "link")
rename(t, l) ==
    TwoPaths(l) /\ TwoLocks(t, "rename", l.first[1], l.first[2], l.node, Name(l))
exchange(t, l) ==
    TwoPaths(l) /\ TwoLocks(t, "exchange", l.first[1], l.first[2], l.node, Name(l))

\* The system calls.
openat(t, l) == \E new \in Others \cap scene.nodes : create_file(t, l, new)
mknodat(t, l) == \E new \in Others \cap scene.nodes : create_fifo(t, l, new)
mkdirat(t, l) == create_directory(t, l)
symlinkat(t, l) == \E new \in Links \cap scene.nodes, to \in Targets : create_link(t, l, new, to)
unlinkat(t, l) == unlink_file(t, l) \/ unlink_dir(t, l)
linkat(t, l) == hard_link(t, l)
renameat(t, l) == rename(t, l)
renameat2(t, l) == exchange(t, l)
mount(t, l) ==
    /\ find_parent(l) /\ l.op = "mount"
    /\ \E m \in Mounts \cap scene.nodes : Mount(t, l.node, Name(l), m)
chdir(t, l) == Chdir(t, l)

Call(t) ==
    \E l \in Lookups(t) :
        \/ LookUp(t, l)
        \/ renameat(t, l) \/ renameat2(t, l)
        \/ /\ \/ openat(t, l) \/ mknodat(t, l) \/ mkdirat(t, l) \/ symlinkat(t, l)
              \/ unlinkat(t, l) \/ SecondPath(t, l) \/ linkat(t, l) \/ mount(t, l) \/ chdir(t, l)
           /\ UNCHANGED overlapped

Next ==
    \E t \in Thread :
        Call(t) \/ Return(t) \/ RmdirCheck(t) \/ Rmdir(t) \/ Walk(t) \/ RenameDo(t) \/ ExchangeDo(t)

Spec == Init /\ [][Next]_vars

-----------------------------------------------------------------------------
\* The names on the way from the root to a directory, as Directory::path puts
\* them together. There is no such path when a parent is gone, and none on a
\* loop, where the code's recursion does not end.
RECURSIVE PathTo(_, _)
PathTo(d, seen) ==
    IF d = Root THEN <<"/">>
    ELSE IF d \in seen \/ loc[d] = Nowhere THEN Missing
    ELSE LET up == PathTo(loc[d][1], seen \cup {d})
         IN IF up = Missing THEN Missing ELSE Append(up, loc[d][2])

\* What a path of names leads to.
RECURSIVE At(_, _)
At(d, names) ==
    IF names = <<>> \/ d = Missing THEN d ELSE At(get_node(d, Head(names)), Tail(names))

\* The tree is sound. The link count of a file is the number of its entries, and
\* a directory has one entry at most. A directory knows the entry that it has,
\* unless an exchange or a mount left its location behind. As long as there is no
\* such directory, none that was removed is in use, and no two moves between
\* directories have overlapped, every directory with an entry is below the root,
\* by the path that getcwd builds; and threads that hold locks wait for each other
\* only when one of them is a rename that replaces a directory.
TreeSound ==
    /\ \A f \in Others : links[f] = CountOf(f, items)
    /\ \A d \in AllDirs : CountOf(d, items) <= 1
    /\ \A e \in Entries(items) : items[e[1]][e[2]] \in Dirs \ stale => loc[items[e[1]][e[2]]] = e
    /\ stale = {} /\ ~overlapped =>
          /\ \A d \in Dirs \ {Root} : CountOf(d, items) = 1 =>
                PathTo(d, {}) # Missing /\ At(Root, Tail(PathTo(d, {}))) = d
          /\ \A t, u \in Thread :
                Wants(t) \cap Holds(u) # {} /\ Wants(u) \cap Holds(t) # {}
                    => "rename" \in {thread[t].pc, thread[u].pc}
=============================================================================
