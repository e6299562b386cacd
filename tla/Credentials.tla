----------------------------- MODULE Credentials -----------------------------
(***************************************************************************)
(* Who may do what: the user and group ids of processes, the calls that    *)
(* change them, the permissions of a file, process groups, and the calls   *)
(* that check their caller's ids before they reach another process (kill   *)
(* and setpriority).  Three calls do not: tgkill signals any thread,       *)
(* prlimit64 sets any process's limits (only raising a hard limit takes    *)
(* the super user), and futimesat sets the times of any file it can look   *)
(* up.  They change nothing that is modelled here, and the properties are  *)
(* not about them.                                                         *)
(*                                                                         *)
(* A process is one thread here: every call runs under its thread's lock   *)
(* and the lock of the credentials, and takes effect in one step. There is *)
(* one session, since no call makes another.                               *)
(***************************************************************************)
EXTENDS Naturals, Sequences, FiniteSets, Relation

CONSTANTS Process, Pid1,
          Uid, Gid,      \* the ids that calls pass; 0 is the super user
          UNCHANGED_ID,  \* !0: leave this id alone
          Modes,         \* sets of mode bits that calls pass; g s is SET_GROUP_ID
          MaxCalls,      \* bound: calls that change something
          MaxGroups      \* bound: process groups made

IdsAssumption == Pid1 \in Process /\ 0 \in Uid /\ 0 \in Gid /\ UNCHANGED_ID # 0
ASSUME IdsConstants == IdsAssumption

VARIABLES cred,      \* process -> its ids, by kind, and its groups
          parent,    \* the processes forked so far -> their parents
          group,     \* process -> the index of its process group
          groups,    \* the process groups made so far: an id and a list
          file,      \* owner, group and mode of a file
          umask,     \* process -> mode bits that a new file does not get
          held,      \* process -> the user ids it had when it gave up user 0
          calls
idsVars == <<cred, parent, group, groups, file, umask, held, calls>>

Pass(S) == S \cup {UNCHANGED_ID}
Same(i) == [r |-> i, e |-> i, s |-> i, f |-> i]
Count == calls' = calls + 1
exists == DOMAIN parent

super_user == [user |-> Same(0), group |-> Same(0), supplementary |-> {}]

IdsInit ==
  /\ cred = [p \in Process |-> super_user]
  /\ parent = [p \in {Pid1} |-> Pid1]
  /\ group = [p \in Process |-> 1]
  /\ groups = <<[pgid |-> Pid1, processes |-> {Pid1}]>>
  /\ file = [uid |-> 0, gid |-> 0, mode |-> {}]
  /\ umask = [p \in Process |-> {}]
  /\ held = [p \in Process |-> {}]
  /\ calls = 0

is_super_user(p) == cred[p].user.e = 0

IdsOf(ids) == {ids.r, ids.e, ids.s, ids.f}

--------------------------------------------------------------------------
(* The calls that change ids. Each has a form for users and one for groups *)
(* with the same rules; the super user is one by effective user id.        *)

Allowed(p, id, among) == is_super_user(p) \/ id \in among

GaveUp(ids) == 0 \notin IdsOf(ids)

Change(p, kind, ids) ==
  /\ Count
  /\ cred' = [cred EXCEPT ![p][kind] = ids]
  /\ held' = [held EXCEPT ![p] = IF kind = "user" /\ GaveUp(ids) /\ @ = {}
                                 THEN IdsOf(ids) ELSE @]
  /\ UNCHANGED <<parent, group, groups, file, umask>>

(* setuid sets the real id, whoever calls. *)
setuid(p, kind, id) ==
  LET c == cred[p][kind] IN
  /\ Allowed(p, id, {c.s, c.r})
  /\ Change(p, kind, [c EXCEPT !.r = id])

(* The saved id follows the effective one. The real id is set to the new   *)
(* effective id, as it was passed.                                         *)
setreuid(p, kind, r, e) ==
  LET c == cred[p][kind]
      after == IF e = UNCHANGED_ID THEN c ELSE [c EXCEPT !.e = e, !.f = e]
      real == IF r = UNCHANGED_ID THEN after ELSE [after EXCEPT !.r = e]
      moves == r # UNCHANGED_ID \/ (e # UNCHANGED_ID /\ e # c.r)
  IN /\ e = UNCHANGED_ID \/ Allowed(p, e, {c.r, c.e, c.s})
     /\ r = UNCHANGED_ID \/ Allowed(p, r, {c.r, c.e})
     /\ Change(p, kind, IF moves THEN [real EXCEPT !.s = real.e] ELSE real)

(* Mutant: the ids that are asked for are not checked. *)
AnyRequested(p, c, requested) == TRUE

MayRequest(p, c, requested) ==
  \A id \in requested \ {UNCHANGED_ID} : Allowed(p, id, {c.r, c.e, c.s})

setresuid(p, kind, r, e, s) ==
  LET c == cred[p][kind]
      Or(new, old) == IF new = UNCHANGED_ID THEN old ELSE new
  IN /\ MayRequest(p, c, {r, e, s})
     /\ Change(p, kind, [r |-> Or(r, c.r), e |-> Or(e, c.e), s |-> Or(s, c.s),
                         f |-> Or(e, c.e)])

setfsuid(p, kind, id) ==
  LET c == cred[p][kind] IN
  /\ Allowed(p, id, IdsOf(c))
  /\ Change(p, kind, [c EXCEPT !.f = id])

setgroups(p, gids) ==
  /\ is_super_user(p)
  /\ Change(p, "supplementary", gids)

(* A program that is executed saves its effective ids. *)
execve(p) ==
  /\ Count
  /\ cred' = [cred EXCEPT ![p].user.s = cred[p].user.e, ![p].group.s = cred[p].group.e]
  /\ UNCHANGED <<parent, group, groups, file, umask, held>>

fork(p, q) ==
  /\ q \notin exists
  /\ parent' = [r \in exists \cup {q} |-> IF r = q THEN p ELSE parent[r]]
  /\ cred' = [cred EXCEPT ![q] = cred[p]]
  /\ group' = [group EXCEPT ![q] = group[p]]
  /\ groups' = [groups EXCEPT ![group[p]].processes = @ \cup {q}]
  /\ umask' = [umask EXCEPT ![q] = umask[p]]
  /\ held' = [held EXCEPT ![q] = held[p]]
  /\ Count
  /\ UNCHANGED file

--------------------------------------------------------------------------
(* Files *)

is_user(p, uid) == cred[p].user.f \in {0, uid}

is_in_group(p, gid) ==
  cred[p].user.f = 0 \/ cred[p].group.f = gid \/ gid \in cred[p].supplementary

Bits(who, permission) == {<<who, permission>>}

(* The super user may read and write anything, and execute what somebody may. *)
check_permissions(c, stat, permission) ==
  IF c.user.f = 0
  THEN permission = "x" => \E who \in {"u", "g", "o"} : Bits(who, "x") \subseteq stat.mode
  ELSE LET who == IF c.user.f = stat.uid THEN "u"
                  ELSE IF c.group.f = stat.gid \/ stat.gid \in c.supplementary THEN "g" ELSE "o"
       IN Bits(who, permission) \subseteq stat.mode

(* openat checks with the file system ids, faccessat with the real ones. *)
openat(p, permission) == check_permissions(cred[p], file, permission)

faccessat(p, permission) ==
  check_permissions([cred[p] EXCEPT !.user.f = cred[p].user.r, !.group.f = cred[p].group.r],
                    file, permission)

(* Setting times, the mode or the owner takes the owner. *)
Owns(p) == is_user(p, file.uid)

utimensat(p) == Owns(p) \/ openat(p, "w")

FileOnly(f) ==
  /\ Count
  /\ file' = f
  /\ UNCHANGED <<cred, parent, group, groups, umask, held>>

fchmodat(p, mode) ==
  /\ Owns(p)
  /\ FileOnly([file EXCEPT !.mode = IF cred[p].user.f # 0 /\ ~is_in_group(p, file.gid)
                                       THEN mode \ Bits("g", "s") ELSE mode])

fchownat(p, u, g) ==
  LET uid == IF u = UNCHANGED_ID THEN file.uid ELSE u
      gid == IF g = UNCHANGED_ID THEN file.gid ELSE g
  IN /\ Owns(p) /\ is_user(p, uid) /\ is_in_group(p, gid)
     /\ FileOnly([file EXCEPT !.uid = uid, !.gid = gid])

(* A new file takes the place of this one. *)
Create(p, mode) ==
  FileOnly([uid |-> cred[p].user.f, gid |-> cred[p].group.f, mode |-> mode \ umask[p]])

set_umask(p, mode) ==
  /\ umask' = [umask EXCEPT ![p] = mode]
  /\ Count
  /\ UNCHANGED <<cred, parent, group, groups, file, held>>

--------------------------------------------------------------------------
(* Process groups and the calls that reach other processes *)

(* The process and its descendants *)
iter(p) ==
  {p} \cup {q \in exists :
              TransitiveClosure([e \in exists \X exists |-> parent[e[2]] = e[1] /\ e[1] # e[2]],
                                exists)[<<p, q>>]}

(* The id of the new group is always the process's: the call makes a group *)
(* that lists nobody, and the list of the old one stays as it was.         *)
setpgid(p, q) ==
  /\ Len(groups) < MaxGroups
  /\ q \in iter(p)
  /\ groups' = Append(groups, [pgid |-> q, processes |-> {}])
  /\ group' = [group EXCEPT ![q] = Len(groups) + 1]
  /\ Count
  /\ UNCHANGED <<cred, parent, file, umask, held>>

SenderIds(c) == {c.r, c.e}

can_send_signal(p, q, sig) ==
  \/ p = q \/ sig = "CONT" \/ is_super_user(p)
  \/ SenderIds(cred[p].user) \cap {cred[q].user.r, cred[q].user.s} # {}

(* A pid, 0, -1 and what is below -1 *)
KillTargets(p) ==
  LET listed == groups[group[p]].processes
  IN {{q} : q \in exists} \cup {listed, exists \ {Pid1}} \cup {{q} : q \in listed}

(* The processes that get the signal *)
kill(p, targets, sig) == {q \in targets : can_send_signal(p, q, sig)}

find_priority_targets(p) ==
  {{q} : q \in exists}
    \cup {{q \in exists : groups[group[q]].pgid = g} : g \in exists}
    \cup {{q \in exists : cred[q].user.r = u} : u \in Uid}

(* One process out of reach fails the whole call. *)
setpriority(p, targets) ==
  LET c == cred[p].user
  IN IF \A q \in targets : c.e = 0 \/ cred[q].user.e \in {c.e, c.r} THEN targets ELSE {}

--------------------------------------------------------------------------
ChangeIds(p) ==
  \/ \E kind \in {"user", "group"} :
       \E ids \in {IF kind = "user" THEN Uid ELSE Gid} :
         \/ \E id \in Pass(ids) : setuid(p, kind, id) \/ setfsuid(p, kind, id)
         \/ \E r, e \in Pass(ids) : setreuid(p, kind, r, e)
         \/ \E r, e, s \in Pass(ids) : setresuid(p, kind, r, e, s)
  \/ \E gids \in SUBSET Gid : setgroups(p, gids)
  \/ execve(p)

UseFile(p) ==
  \/ \E mode \in Modes : fchmodat(p, mode) \/ Create(p, mode) \/ set_umask(p, mode)
  \/ \E u \in Pass(Uid), g \in Pass(Gid) : fchownat(p, u, g)

IdsNext ==
  /\ calls < MaxCalls
  /\ \E p \in exists :
       ChangeIds(p) \/ UseFile(p) \/ \E q \in Process : fork(p, q) \/ setpgid(p, q)

IdsSpec == IdsInit /\ [][IdsNext]_idsVars

--------------------------------------------------------------------------
(* Type correctness. *)
IdsTypeOK ==
  /\ \A p \in Process : \A k \in {"r", "e", "s", "f"} :
       cred[p].user[k] \in Pass(Uid) /\ cred[p].group[k] \in Pass(Gid)
  /\ group \in [Process -> DOMAIN groups]
  /\ file.uid \in Pass(Uid) /\ file.gid \in Pass(Gid)

(* A process that has no id of the super user left never has another id    *)
(* than those it had then, whatever it calls and whoever it forks, but for *)
(* the !0 that setreuid stores as a real id.                               *)
NothingRegained ==
  \A p \in exists : held[p] # {} => IdsOf(cred[p].user) \subseteq Pass(held[p])

(* ... and the calls that check ids let it act on nothing of another user's: *)
(* kill and setpriority on no process (but for SIGCONT), chmod, chown,       *)
(* utimensat, openat and faccessat on no file, but for what the file's group *)
(* or everybody may do.                                                      *)
NobodyElses ==
  \A p \in exists : held[p] # {} =>
    LET Own(ids) == ids \cap Pass(held[p]) # {}
        Shared(permission) == \E who \in {"g", "o"} : Bits(who, permission) \subseteq file.mode
    IN /\ \A targets \in KillTargets(p) : \A q \in kill(p, targets, "TERM") :
            Own(IdsOf(cred[q].user))
       /\ \A targets \in find_priority_targets(p) : \A q \in setpriority(p, targets) :
            Own(IdsOf(cred[q].user))
       /\ Owns(p) => Own({file.uid})
       /\ utimensat(p) => Own({file.uid}) \/ Shared("w")
       /\ \A permission \in {"r", "w", "x"} :
            openat(p, permission) \/ faccessat(p, permission) =>
              Own({file.uid}) \/ Shared(permission)

CredentialsSound == NothingRegained /\ NobodyElses

(* Credentials (thread.rs, syscall.rs): an id that was given up does not    *)
(* come back, and kill, setpriority and the calls on a file that check     *)
(* their caller let nobody act on what is another user's.                  *)
IdsKept == IdsTypeOK /\ CredentialsSound
=============================================================================
