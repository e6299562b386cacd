----------------------------- MODULE TaskProofs -----------------------------
(***************************************************************************)
(* For any number of processes, ids and calls: what a process gave up      *)
(* stays given up (Credentials). For any number of threads and values: no  *)
(* waiter misses a change of the word (Futex).                             *)
(*                                                                         *)
(* CredentialsSound alone is not inductive: that the ids of a process stay *)
(* among those it had when it gave up user 0 needs that 0 is not among     *)
(* these, since else a call as the super user could set any id, and that a *)
(* forked process takes them over together with the ids (HeldBounds). Whom *)
(* the process signals, renices and which files it opens follows from the  *)
(* ids alone.                                                              *)
(*                                                                         *)
(* EntriesMatch counts open entries; what is kept is that a thread has at  *)
(* most one, that a sleeping thread has one and that only a thread that    *)
(* sleeps or is about to give up does. wake makes a new list of the        *)
(* entries it does not take, so its case needs that the kept places are    *)
(* numbered without a gap (RankOnto).                                      *)
(***************************************************************************)
EXTENDS Futex, Credentials, FiniteSetTheorems, TLAPS

(* The ids of a kind, a process's credentials, process groups and files.   *)
IdSet(S) == [r : S, e : S, s : S, f : S]
CredSet == [user : IdSet(Pass(Uid)), group : IdSet(Pass(Gid)), supplementary : SUBSET Gid]
GroupSet == [pgid : Process, processes : SUBSET Process]
FileSet == [uid : Pass(Uid), gid : Pass(Gid), mode : SUBSET UNION Modes]

(* The types of what the calls read; a process's group is one that was     *)
(* made.                                                                   *)
IdsTypes ==
  /\ cred \in [Process -> CredSet]
  /\ exists \subseteq Process
  /\ groups \in Seq(GroupSet)
  /\ group \in [Process -> DOMAIN groups]
  /\ file \in FileSet

(* What a process had when it gave up user 0 bounds what it has since.     *)
Bounded(ids, had) == had # {} => 0 \notin had /\ IdsOf(ids) \subseteq Pass(had)
HeldBounds == held \in [Process -> SUBSET Pass(Uid)] /\ \A p \in Process : Bounded(cred[p].user, held[p])

IdsInv == IdsTypes /\ HeldBounds

-----------------------------------------------------------------------------
(* The first process has the ids of the super user and gave up nothing.    *)
LEMMA IdsInitHolds ==
  ASSUME IdsAssumption, IdsInit
  PROVE  IdsInv
<1>1. super_user \in CredSet
  <2>1. Same(0) \in IdSet(Pass(Uid)) /\ Same(0) \in IdSet(Pass(Gid))
    BY DEF Same, IdSet, Pass, IdsAssumption
  <2> QED BY <2>1 DEF super_user, CredSet
<1>2. groups = <<[pgid |-> Pid1, processes |-> {Pid1}]>> /\ [pgid |-> Pid1, processes |-> {Pid1}] \in GroupSet
  BY DEF IdsInit, GroupSet, IdsAssumption
<1>3. groups \in Seq(GroupSet) /\ 1 \in DOMAIN groups
  BY <1>2
<1>4. file \in FileSet
  BY DEF IdsInit, FileSet, Pass, IdsAssumption
<1> QED BY <1>1, <1>3, <1>4 DEF IdsInit, IdsInv, IdsTypes, HeldBounds, Bounded, exists, IdsAssumption

(* The ids of a kind are of its type. *)
LEMMA KindTypes ==
  ASSUME IdsInv, NEW p \in Process
  PROVE  /\ cred[p] \in CredSet
         /\ cred[p]["user"] \in IdSet(Pass(Uid)) /\ cred[p]["group"] \in IdSet(Pass(Gid))
         /\ cred[p]["user"] = cred[p].user /\ cred[p]["group"] = cred[p].group
<1>1. cred[p] \in CredSet
  BY DEF IdsInv, IdsTypes
<1> QED BY <1>1 DEF CredSet

(* A process without an id of the super user takes only ids it has, or !0. *)
Within(c, ids) == IdsOf(ids) \subseteq Pass(IdsOf(c))

(* A call that changes ids keeps the invariant if a caller that is not the *)
(* super user only gets ids that it has.                                   *)
LEMMA ChangeKeeps ==
  ASSUME IdsAssumption, IdsInv, NEW p \in Process,
         NEW kind \in {"user", "group"},
         NEW ids \in IdSet(Pass(IF kind = "user" THEN Uid ELSE Gid)),
         Change(p, kind, ids),
         ~is_super_user(p) => Within(cred[p][kind], ids)
  PROVE  IdsInv'
<1> DEFINE c == cred[p]
           n == [c EXCEPT ![kind] = ids]
<1>1. /\ cred \in [Process -> CredSet] /\ c \in CredSet /\ held \in [Process -> SUBSET Pass(Uid)]
      /\ cred' = [cred EXCEPT ![p] = n]
      /\ held' = [held EXCEPT ![p] = IF kind = "user" /\ GaveUp(ids) /\ @ = {}
                                 THEN IdsOf(ids) ELSE @]
      /\ UNCHANGED <<parent, group, groups, file, umask>>
  BY KindTypes DEF Change, IdsInv, IdsTypes, HeldBounds
<1>2. n \in CredSet /\ (kind = "user" => n.user = ids) /\ (kind = "group" => n.user = c.user)
  BY <1>1 DEF CredSet
<1>3. cred' \in [Process -> CredSet] /\ cred'[p] = n /\ \A q \in Process : q # p => cred'[q] = cred[q]
  <2> HIDE DEF n
  <2> QED BY <1>1, <1>2
<1>4. IdsTypes'
  BY <1>1, <1>3 DEF IdsInv, IdsTypes, exists
<1>5. Bounded(c.user, held[p]) /\ c.user \in IdSet(Pass(Uid)) /\ held[p] \in SUBSET Pass(Uid)
  BY <1>1, KindTypes DEF IdsInv, HeldBounds
<1>6. CASE kind = "user"
  <2>1. ids \in IdSet(Pass(Uid)) /\ IdsOf(ids) \in SUBSET Pass(Uid)
    BY <1>6 DEF IdSet, IdsOf
  <2>2. held'[p] = IF GaveUp(ids) /\ held[p] = {} THEN IdsOf(ids) ELSE held[p]
    BY <1>1, <1>6
  <2>3. held' \in [Process -> SUBSET Pass(Uid)] /\ \A q \in Process : q # p => held'[q] = held[q]
    BY <1>1, <2>1
  <2>4. Bounded(ids, held'[p])
    <3>1. CASE held[p] = {}
      BY <2>2, <3>1 DEF Bounded, GaveUp, Pass
    <3>2. CASE held[p] # {}
      <4>1. c.user.e \in IdsOf(c.user) /\ c.user.e # 0
        BY <1>5, <3>2 DEF Bounded, IdsOf, Pass, IdsAssumption
      <4>2. IdsOf(ids) \subseteq Pass(IdsOf(c.user))
        BY <4>1, <1>6, KindTypes DEF is_super_user, Within
      <4> QED BY <4>2, <1>5, <3>2, <2>2 DEF Bounded, Pass
    <3> QED BY <3>1, <3>2
  <2>u. cred'[p].user = ids
    BY <1>2, <1>3, <1>6
  <2>5. HeldBounds'
    <3>1. ASSUME NEW q \in Process PROVE Bounded(cred'[q].user, held'[q])
      <4>1. CASE q = p
        BY <4>1, <2>u, <2>4
      <4>2. CASE q # p
        BY <4>2, <1>3, <2>3 DEF IdsInv, HeldBounds
      <4> QED BY <4>1, <4>2
    <3> QED BY <2>3, <3>1 DEF HeldBounds
  <2> QED BY <1>4, <2>5 DEF IdsInv
<1>7. CASE kind = "group"
  <2>1. held' = held
    BY <1>1, <1>7
  <2>2. \A q \in Process : cred'[q].user = cred[q].user
    BY <1>2, <1>3, <1>7
  <2> QED BY <1>4, <2>1, <2>2 DEF IdsInv, HeldBounds
<1> QED BY <1>6, <1>7

-----------------------------------------------------------------------------
(* The calls that change ids. *)

(* setuid, setgid, setfsuid and setfsgid keep the invariant: without being *)
(* the super user a process sets an id to one of its own.                  *)
LEMMA SetuidKeeps ==
  ASSUME IdsAssumption, IdsInv, NEW p \in Process, NEW kind \in {"user", "group"},
         NEW id \in Pass(IF kind = "user" THEN Uid ELSE Gid),
         setuid(p, kind, id) \/ setfsuid(p, kind, id)
  PROVE  IdsInv'
<1> DEFINE S == Pass(IF kind = "user" THEN Uid ELSE Gid)
           c == cred[p][kind]
<1>1. c \in IdSet(S)
  BY KindTypes
<1> HIDE DEF S, c
<1>2. /\ [c EXCEPT !.r = id] \in IdSet(S) /\ [c EXCEPT !.f = id] \in IdSet(S)
  BY <1>1 DEF IdSet, S
<1>3. id \in IdsOf(c) => Within(c, [c EXCEPT !.r = id]) /\ Within(c, [c EXCEPT !.f = id])
  BY <1>1 DEF IdSet, Within, IdsOf, Pass
<1>4. CASE setuid(p, kind, id)
  <2>1. Change(p, kind, [c EXCEPT !.r = id]) /\ (~is_super_user(p) => id \in IdsOf(c))
    BY <1>4 DEF setuid, Allowed, IdsOf, c
  <2> QED BY <1>2, <1>3, <2>1, ChangeKeeps DEF S, c
<1>5. CASE setfsuid(p, kind, id)
  <2>1. Change(p, kind, [c EXCEPT !.f = id]) /\ (~is_super_user(p) => id \in IdsOf(c))
    BY <1>5 DEF setfsuid, Allowed, c
  <2> QED BY <1>2, <1>3, <2>1, ChangeKeeps DEF S, c
<1> QED BY <1>4, <1>5

(* setreuid and setregid keep the invariant: the real id becomes the       *)
(* effective one that was passed, which the caller has or which is !0.     *)
LEMMA SetreuidKeeps ==
  ASSUME IdsAssumption, IdsInv, NEW p \in Process, NEW kind \in {"user", "group"},
         NEW r \in Pass(IF kind = "user" THEN Uid ELSE Gid),
         NEW e \in Pass(IF kind = "user" THEN Uid ELSE Gid),
         setreuid(p, kind, r, e)
  PROVE  IdsInv'
<1> DEFINE S == Pass(IF kind = "user" THEN Uid ELSE Gid)
           c == cred[p][kind]
           after == IF e = UNCHANGED_ID THEN c ELSE [c EXCEPT !.e = e, !.f = e]
           real == IF r = UNCHANGED_ID THEN after ELSE [after EXCEPT !.r = e]
           moves == r # UNCHANGED_ID \/ (e # UNCHANGED_ID /\ e # c.r)
           ids == IF moves THEN [real EXCEPT !.s = real.e] ELSE real
<1>1. c \in IdSet(S)
  BY KindTypes
<1>2. Change(p, kind, ids) /\ (~is_super_user(p) => e \in Pass(IdsOf(c)))
  BY DEF setreuid, Allowed, IdsOf, Pass
<1> HIDE DEF S, c
<1>3. /\ after \in IdSet(S)
      /\ IdsOf(after) \subseteq IdsOf(c) \cup {e}
  BY <1>1 DEF IdSet, S, IdsOf
<1> HIDE DEF after
<1>4. real \in IdSet(S) /\ IdsOf(real) \subseteq IdsOf(c) \cup {e}
  BY <1>3 DEF IdSet, S, IdsOf
<1> HIDE DEF real, moves
<1>5. ids \in IdSet(S) /\ IdsOf(ids) \subseteq IdsOf(c) \cup {e}
  BY <1>4 DEF IdSet, S, IdsOf
<1> HIDE DEF ids
<1>6. ~is_super_user(p) => Within(c, ids)
  BY <1>2, <1>5 DEF Within, Pass
<1> QED BY <1>2, <1>5, <1>6, ChangeKeeps DEF S, c

(* setresuid and setresgid keep the invariant: every id that is asked for  *)
(* is one the caller has.                                                  *)
LEMMA SetresuidKeeps ==
  ASSUME IdsAssumption, IdsInv, NEW p \in Process, NEW kind \in {"user", "group"},
         NEW r \in Pass(IF kind = "user" THEN Uid ELSE Gid),
         NEW e \in Pass(IF kind = "user" THEN Uid ELSE Gid),
         NEW s \in Pass(IF kind = "user" THEN Uid ELSE Gid),
         setresuid(p, kind, r, e, s)
  PROVE  IdsInv'
<1> DEFINE S == Pass(IF kind = "user" THEN Uid ELSE Gid)
           c == cred[p][kind]
           Or(new, old) == IF new = UNCHANGED_ID THEN old ELSE new
           ids == [r |-> Or(r, c.r), e |-> Or(e, c.e), s |-> Or(s, c.s), f |-> Or(e, c.e)]
<1>1. c \in IdSet(S)
  BY KindTypes
<1>2. Change(p, kind, ids) /\ (~is_super_user(p) => {r, e, s} \subseteq Pass(IdsOf(c)))
  BY DEF setresuid, MayRequest, Allowed, IdsOf, Pass
<1> HIDE DEF S, c
<1>3. ids \in IdSet(S) /\ IdsOf(ids) \subseteq IdsOf(c) \cup {r, e, s}
  BY <1>1 DEF IdSet, S, IdsOf
<1> HIDE DEF ids
<1>4. ~is_super_user(p) => Within(c, ids)
  BY <1>2, <1>3 DEF Within, Pass
<1> QED BY <1>2, <1>3, <1>4, ChangeKeeps DEF S, c

(* setgroups changes no user id.                                           *)
LEMMA SetgroupsKeeps ==
  ASSUME IdsInv, NEW p \in Process, NEW gids \in SUBSET Gid, setgroups(p, gids)
  PROVE  IdsInv'
<1> DEFINE n == [cred[p] EXCEPT !.supplementary = gids]
<1>1. /\ cred \in [Process -> CredSet] /\ cred[p] \in CredSet
      /\ cred' = [cred EXCEPT ![p] = n] /\ UNCHANGED <<parent, group, groups, file, umask, held>>
  BY KindTypes DEF setgroups, Change, IdsInv, IdsTypes, HeldBounds
<1>2. n \in CredSet /\ n.user = cred[p].user
  BY <1>1 DEF CredSet
<1> HIDE DEF n
<1>3. cred' \in [Process -> CredSet] /\ \A q \in Process : cred'[q].user = cred[q].user
  BY <1>1, <1>2
<1> QED BY <1>1, <1>3 DEF IdsInv, IdsTypes, HeldBounds, exists

(* execve copies effective ids to saved ids, so it adds none.              *)
LEMMA ExecveKeeps ==
  ASSUME IdsInv, NEW p \in Process, execve(p)
  PROVE  IdsInv'
<1> DEFINE c == cred[p]
           u == [c.user EXCEPT !.s = c.user.e]
           g == [c.group EXCEPT !.s = c.group.e]
           n == [c EXCEPT !.user = u, !.group = g]
<1>1. /\ cred \in [Process -> CredSet] /\ c \in CredSet
      /\ UNCHANGED <<parent, group, groups, file, umask, held>>
  BY KindTypes DEF execve, IdsInv, IdsTypes
<1>2. c.user \in IdSet(Pass(Uid)) /\ c.group \in IdSet(Pass(Gid))
  BY <1>1 DEF CredSet
<1>3. u \in IdSet(Pass(Uid)) /\ g \in IdSet(Pass(Gid)) /\ IdsOf(u) \subseteq IdsOf(c.user)
  BY <1>2 DEF IdSet, IdsOf
<1>4. cred' = [cred EXCEPT ![p] = n]
  BY <1>1 DEF execve, CredSet
<1> HIDE DEF u, g
<1>5. n \in CredSet /\ n.user = u
  BY <1>1, <1>3 DEF CredSet
<1> HIDE DEF n
<1>6. cred' \in [Process -> CredSet] /\ cred'[p].user = u /\ \A q \in Process : q # p => cred'[q] = cred[q]
  BY <1>1, <1>4, <1>5
<1>7. HeldBounds'
  BY <1>1, <1>3, <1>6 DEF IdsInv, HeldBounds, Bounded
<1> QED BY <1>1, <1>6, <1>7 DEF IdsInv, IdsTypes, exists

-----------------------------------------------------------------------------
(* A forked process has its parent's ids and what its parent gave up.      *)
LEMMA ForkKeeps ==
  ASSUME IdsInv, NEW p \in Process, NEW q \in Process, fork(p, q)
  PROVE  IdsInv'
<1> DEFINE i == group[p]
           g == [groups[i] EXCEPT !.processes = @ \cup {q}]
<1>1. /\ cred' = [cred EXCEPT ![q] = cred[p]] /\ held' = [held EXCEPT ![q] = held[p]]
      /\ group' = [group EXCEPT ![q] = group[p]] /\ UNCHANGED file
      /\ groups' = [groups EXCEPT ![i] = g]
      /\ parent' = [r \in exists \cup {q} |-> IF r = q THEN p ELSE parent[r]]
  BY DEF fork
<1>2. /\ cred \in [Process -> CredSet] /\ held \in [Process -> SUBSET Pass(Uid)]
      /\ groups \in Seq(GroupSet) /\ group \in [Process -> DOMAIN groups] /\ i \in DOMAIN groups
      /\ groups[i] \in GroupSet /\ exists \subseteq Process
  BY DEF IdsInv, IdsTypes, HeldBounds
<1>3. g \in GroupSet
  BY <1>2 DEF GroupSet
<1> HIDE DEF g, i
<1>4. groups' \in Seq(GroupSet) /\ DOMAIN groups' = DOMAIN groups
  BY <1>1, <1>2, <1>3
<1>5. cred' \in [Process -> CredSet] /\ group' \in [Process -> DOMAIN groups] /\ held' \in [Process -> SUBSET Pass(Uid)]
  BY <1>1, <1>2
<1>6. DOMAIN parent' \subseteq Process
  BY <1>1, <1>2
<1>7. HeldBounds'
  BY <1>1, <1>2, <1>5 DEF IdsInv, HeldBounds
<1> QED BY <1>1, <1>4, <1>5, <1>6, <1>7 DEF IdsInv, IdsTypes, exists

(* setpgid makes a group and moves a process there; no id changes.         *)
LEMMA SetpgidKeeps ==
  ASSUME IdsInv, NEW p \in Process, NEW q \in Process, setpgid(p, q)
  PROVE  IdsInv'
<1> DEFINE g == [pgid |-> q, processes |-> {}]
<1>1. /\ groups' = Append(groups, g) /\ group' = [group EXCEPT ![q] = Len(groups) + 1]
      /\ UNCHANGED <<cred, parent, file, umask, held>>
  BY DEF setpgid
<1>2. groups \in Seq(GroupSet) /\ group \in [Process -> DOMAIN groups] /\ g \in GroupSet
  BY DEF IdsInv, IdsTypes, GroupSet
<1> HIDE DEF g
<1>3. groups' \in Seq(GroupSet) /\ DOMAIN groups \subseteq DOMAIN groups' /\ Len(groups) + 1 \in DOMAIN groups'
  BY <1>1, <1>2
<1>4. group' \in [Process -> DOMAIN groups']
  BY <1>1, <1>2, <1>3
<1> QED BY <1>1, <1>3, <1>4 DEF IdsInv, IdsTypes, HeldBounds, exists

(* A call that only changes the file keeps the invariant.                  *)
LEMMA FileKeeps ==
  ASSUME IdsInv, NEW f \in FileSet, FileOnly(f)
  PROVE  IdsInv'
BY DEF IdsInv, IdsTypes, HeldBounds, FileOnly, exists

(* chmod, chown, creating a file and umask leave ids alone, and the file   *)
(* has an owner and a group among the ids there are.                       *)
LEMMA UseFileKeeps ==
  ASSUME IdsInv, NEW p \in Process, UseFile(p)
  PROVE  IdsInv'
<1>1. file \in FileSet /\ cred[p] \in CredSet
  BY DEF IdsInv, IdsTypes
<1>2. ASSUME NEW mode \in Modes, fchmodat(p, mode)
      PROVE  IdsInv'
  <2>1. PICK m \in SUBSET UNION Modes : FileOnly([file EXCEPT !.mode = m])
    BY <1>2 DEF fchmodat
  <2>2. [file EXCEPT !.mode = m] \in FileSet
    BY <1>1 DEF FileSet
  <2> QED BY <2>1, <2>2, FileKeeps
<1>3. ASSUME NEW mode \in Modes, Create(p, mode)
      PROVE  IdsInv'
  <2>1. [uid |-> cred[p].user.f, gid |-> cred[p].group.f, mode |-> mode \ umask[p]] \in FileSet
    BY <1>1 DEF FileSet, CredSet, IdSet
  <2> QED BY <1>3, <2>1, FileKeeps DEF Create
<1>4. ASSUME NEW mode \in Modes, set_umask(p, mode)
      PROVE  IdsInv'
  BY <1>4 DEF set_umask, IdsInv, IdsTypes, HeldBounds, exists
<1>5. ASSUME NEW u \in Pass(Uid), NEW g \in Pass(Gid), fchownat(p, u, g)
      PROVE  IdsInv'
  <2>1. PICK uid \in Pass(Uid), gid \in Pass(Gid) : FileOnly([file EXCEPT !.uid = uid, !.gid = gid])
    BY <1>1, <1>5 DEF fchownat, FileSet
  <2>2. [file EXCEPT !.uid = uid, !.gid = gid] \in FileSet
    BY <1>1 DEF FileSet
  <2> QED BY <2>1, <2>2, FileKeeps
<1> QED BY <1>2, <1>3, <1>4, <1>5 DEF UseFile

(* Every call keeps the invariant.                                         *)
LEMMA IdsStepKeeps ==
  ASSUME IdsAssumption, IdsInv, [IdsNext]_idsVars
  PROVE  IdsInv'
<1>1. CASE UNCHANGED idsVars
  BY <1>1 DEF idsVars, IdsInv, IdsTypes, HeldBounds, exists
<1>2. ASSUME NEW p \in Process, ChangeIds(p)
      PROVE  IdsInv'
  <2>1. ASSUME NEW kind \in {"user", "group"},
               NEW id \in Pass(IF kind = "user" THEN Uid ELSE Gid),
               setuid(p, kind, id) \/ setfsuid(p, kind, id)
        PROVE  IdsInv'
    BY <2>1, SetuidKeeps
  <2>2. ASSUME NEW kind \in {"user", "group"},
               NEW r \in Pass(IF kind = "user" THEN Uid ELSE Gid),
               NEW e \in Pass(IF kind = "user" THEN Uid ELSE Gid),
               setreuid(p, kind, r, e)
        PROVE  IdsInv'
    BY <2>2, SetreuidKeeps
  <2>3. ASSUME NEW kind \in {"user", "group"},
               NEW r \in Pass(IF kind = "user" THEN Uid ELSE Gid),
               NEW e \in Pass(IF kind = "user" THEN Uid ELSE Gid),
               NEW s \in Pass(IF kind = "user" THEN Uid ELSE Gid),
               setresuid(p, kind, r, e, s)
        PROVE  IdsInv'
    BY <2>3, SetresuidKeeps
  <2>4. ASSUME NEW gids \in SUBSET Gid, setgroups(p, gids)
        PROVE  IdsInv'
    BY <2>4, SetgroupsKeeps
  <2>5. ASSUME execve(p)
        PROVE  IdsInv'
    BY <2>5, ExecveKeeps
  <2> QED BY <1>2, <2>1, <2>2, <2>3, <2>4, <2>5 DEF ChangeIds
<1>3. ASSUME NEW p \in Process, UseFile(p)
      PROVE  IdsInv'
  BY <1>3, UseFileKeeps
<1>4. ASSUME NEW p \in Process, NEW q \in Process, fork(p, q) \/ setpgid(p, q)
      PROVE  IdsInv'
  BY <1>4, ForkKeeps, SetpgidKeeps
<1>5. exists \subseteq Process
  BY DEF IdsInv, IdsTypes
<1> QED BY <1>1, <1>2, <1>3, <1>4, <1>5 DEF IdsNext

-----------------------------------------------------------------------------
(* Whom and what a process reaches that gave up user 0. *)
LEMMA ReachesOwn ==
  ASSUME IdsAssumption, IdsInv, NEW p \in Process, held[p] # {}
  PROVE  LET Own(ids) == ids \cap Pass(held[p]) # {}
             Shared(permission) == \E who \in {"g", "o"} : Bits(who, permission) \subseteq file.mode
         IN /\ \A targets \in KillTargets(p) : \A q \in kill(p, targets, "TERM") :
                 Own(IdsOf(cred[q].user))
            /\ \A targets \in find_priority_targets(p) : \A q \in setpriority(p, targets) :
                 Own(IdsOf(cred[q].user))
            /\ Owns(p) => Own({file.uid})
            /\ utimensat(p) => Own({file.uid}) \/ Shared("w")
            /\ \A permission \in {"r", "w", "x"} :
                 openat(p, permission) \/ faccessat(p, permission) =>
                   Own({file.uid}) \/ Shared(permission)
<1> DEFINE c == cred[p].user
           had == Pass(held[p])
           Own(ids) == ids \cap had # {}
           Shared(permission) == \E who \in {"g", "o"} : Bits(who, permission) \subseteq file.mode
<1>1. /\ {c.r, c.e, c.s, c.f} \subseteq had /\ 0 \notin had
  BY DEF IdsInv, HeldBounds, Bounded, IdsOf, Pass, IdsAssumption
<1>2. ASSUME NEW targets, NEW q \in kill(p, targets, "TERM")
      PROVE  Own(IdsOf(cred[q].user))
  <2>1. can_send_signal(p, q, "TERM")
    BY DEF kill
  <2>2. CASE p = q
    BY <1>1, <2>2 DEF IdsOf
  <2>3. CASE SenderIds(c) \cap {cred[q].user.r, cred[q].user.s} # {}
    BY <1>1, <2>3 DEF IdsOf, SenderIds
  <2> QED BY <1>1, <2>1, <2>2, <2>3 DEF can_send_signal, is_super_user
<1>3. ASSUME NEW targets, NEW q \in setpriority(p, targets)
      PROVE  Own(IdsOf(cred[q].user))
  <2>1. cred[q].user.e \in {c.e, c.r}
    BY <1>1 DEF setpriority
  <2> QED BY <1>1, <2>1 DEF IdsOf
<1>4. Owns(p) => Own({file.uid})
  BY <1>1 DEF Owns, is_user
<1>5. ASSUME NEW d, NEW permission, d.user.f \in had, check_permissions(d, file, permission)
      PROVE  Own({file.uid}) \/ Shared(permission)
  BY <1>1, <1>5 DEF check_permissions
<1>6. ASSUME NEW permission, openat(p, permission)
      PROVE  Own({file.uid}) \/ Shared(permission)
  BY <1>1, <1>5, <1>6 DEF openat
<1>7. ASSUME NEW permission, faccessat(p, permission)
      PROVE  Own({file.uid}) \/ Shared(permission)
  <2> DEFINE d == [cred[p] EXCEPT !.user.f = c.r, !.group.f = cred[p].group.r]
  <2>1. cred[p] \in CredSet /\ c \in IdSet(Pass(Uid))
    BY KindTypes
  <2>2. d.user.f = c.r
    BY <2>1 DEF CredSet, IdSet
  <2>3. check_permissions(d, file, permission)
    BY <1>7 DEF faccessat
  <2> HIDE DEF d
  <2> QED BY <1>1, <1>5, <2>2, <2>3
<1>8. utimensat(p) => Own({file.uid}) \/ Shared("w")
  BY <1>4, <1>6 DEF utimensat
<1> HIDE DEF c, Own, Shared
<1>9. /\ \A targets \in KillTargets(p) : \A q \in kill(p, targets, "TERM") : Own(IdsOf(cred[q].user))
      /\ \A targets \in find_priority_targets(p) : \A q \in setpriority(p, targets) :
            Own(IdsOf(cred[q].user))
      /\ \A permission \in {"r", "w", "x"} :
            openat(p, permission) \/ faccessat(p, permission) =>
              Own({file.uid}) \/ Shared(permission)
  BY <1>2, <1>3, <1>6, <1>7
<1> QED BY <1>4, <1>8, <1>9 DEF Own, Shared, had

(* The invariant is as strong as what the run checks.                      *)
LEMMA IdsInvGives ==
  ASSUME IdsAssumption, IdsInv
  PROVE  IdsTypeOK /\ CredentialsSound
<1>1. \A p \in exists : p \in Process
  BY DEF IdsInv, IdsTypes
<1>2. IdsTypeOK
  <2>1. ASSUME NEW p \in Process, NEW k \in {"r", "e", "s", "f"}
        PROVE  cred[p].user[k] \in Pass(Uid) /\ cred[p].group[k] \in Pass(Gid)
    <3>1. cred[p].user \in IdSet(Pass(Uid)) /\ cred[p].group \in IdSet(Pass(Gid))
      BY KindTypes
    <3> QED BY <3>1 DEF IdSet
  <2>2. file.uid \in Pass(Uid) /\ file.gid \in Pass(Gid) /\ group \in [Process -> DOMAIN groups]
    BY DEF IdsInv, IdsTypes, FileSet
  <2> QED BY <2>1, <2>2 DEF IdsTypeOK
<1>3. NothingRegained
  BY <1>1 DEF NothingRegained, IdsInv, HeldBounds, Bounded
<1>4. NobodyElses
  BY <1>1, ReachesOwn DEF NobodyElses
<1> QED BY <1>2, <1>3, <1>4 DEF CredentialsSound

(* Credentials (thread.rs, syscall.rs): for any processes, ids and calls,  *)
(* a process that has no id of the super user left never gets another id   *)
(* than those it had, and it signals, renices, opens and changes nothing   *)
(* of another user's.                                                      *)
THEOREM IdsAreKept == IdsSpec => []IdsKept
<1>0. IdsAssumption
  BY IdsConstants
<1>1. IdsInit => IdsInv
  BY <1>0, IdsInitHolds
<1>2. IdsInv /\ [IdsNext]_idsVars => IdsInv'
  BY <1>0, IdsStepKeeps
<1>3. IdsInv => IdsKept
  BY <1>0, IdsInvGives DEF IdsKept
<1> QED BY <1>1, <1>2, <1>3, PTL DEF IdsSpec

-----------------------------------------------------------------------------

(* Where a thread is, and the entries of the table.                        *)
Label == {"user", "compared", "asleep", "timedOut", "woken", "stored", "exiting", "gone"}
EntrySet == [thread : Thread, bits : Bitset, open : BOOLEAN]
(* The place i of the table has a sender to thread t that can be sent to.  *)
OpenEntry(i, t) == i \in DOMAIN list /\ list[i].thread = t /\ list[i].open

(* The types of the word, of the table and of what the threads do.         *)
FutexTypes ==
  /\ word \in Value
  /\ list \in Seq(EntrySet) /\ Len(list) <= MaxList
  /\ pc \in [Thread -> Label]
  /\ val \in [Thread -> Value]

(* Nobody is in the table twice with an open channel; who sleeps is in it; *)
(* and who is in it sleeps, or is about to close the channel.              *)
OneEntry == \A t \in Thread : \A i, j : OpenEntry(i, t) /\ OpenEntry(j, t) => i = j
SleeperListed == \A t \in Thread : pc[t] = "asleep" => \E i : OpenEntry(i, t)
OthersUnlisted == \A t \in Thread : \A i : OpenEntry(i, t) => pc[t] \in {"asleep", "timedOut"}

FutexInv == FutexTypes /\ OneEntry /\ SleeperListed /\ OthersUnlisted /\ NoLostChange

-----------------------------------------------------------------------------
(* Rank numbers the elements of a finite set of naturals from 1 without a gap. *)
LEMMA RankOnto ==
  ASSUME NEW P \in SUBSET Nat, IsFiniteSet(P)
  PROVE  /\ Cardinality(P) \in Nat
         /\ \A k \in 1..Cardinality(P) : Nth(P, k) \in P /\ Rank(P, Nth(P, k)) = k
         /\ \A i \in P : Rank(P, i) \in 1..Cardinality(P) /\ Nth(P, Rank(P, i)) = i
<1> DEFINE below(i) == {j \in P : j <= i}
           r == [i \in P |-> Rank(P, i)]
           n == Cardinality(P)
<1>1. n \in Nat
  BY FS_CardinalityType
<1>2. ASSUME NEW i \in P
      PROVE  Rank(P, i) \in 1..n
  <2>1. below(i) \in SUBSET P /\ i \in below(i)
    OBVIOUS
  <2>2. IsFiniteSet(below(i)) /\ Cardinality(below(i)) <= n /\ Cardinality(below(i)) \in Nat
    BY <2>1, FS_Subset, FS_CardinalityType
  <2>3. Cardinality(below(i)) # 0
    BY <2>1, <2>2, FS_EmptySet
  <2> QED BY <2>2, <2>3, <1>1 DEF Rank
<1>3. ASSUME NEW i \in P, NEW j \in P, i < j
      PROVE  Rank(P, i) # Rank(P, j)
  <2>0. i \in Nat /\ j \in Nat /\ i < j /\ \A k \in P : k \in Nat
    BY <1>3
  <2>a. (\A k \in P : k <= i => k <= j) /\ j <= j /\ ~(j <= i)
    BY <2>0
  <2>1. below(i) \in SUBSET below(j) /\ j \in below(j) /\ j \notin below(i)
    BY <2>a
  <2>2. IsFiniteSet(below(j))
    BY FS_Subset
  <2>3. below(j) # below(i)
    BY <2>1
  <2>4. Cardinality(below(j)) # Cardinality(below(i))
    BY <2>1, <2>2, <2>3, FS_Subset
  <2> QED BY <2>4 DEF Rank
<1>4. r \in Injection(P, 1..n)
  <2>1. r \in [P -> 1..n]
    BY <1>2
  <2>2. \A i, j \in P : r[i] = r[j] => i = j
    <3> SUFFICES ASSUME NEW i \in P, NEW j \in P, i # j
                 PROVE  Rank(P, i) # Rank(P, j)
      OBVIOUS
    <3>1. i < j \/ j < i
      OBVIOUS
    <3> QED BY <3>1, <1>3
  <2> QED BY <2>1, <2>2 DEF Injection, IsInjective
<1>5. r \in Surjection(P, 1..n)
  <2>1. IsFiniteSet(1..n) /\ Cardinality(1..n) = n
    BY <1>1, FS_Interval
  <2> HIDE DEF r, n
  <2> QED BY <1>4, <2>1, FS_Injection DEF n
<1>6. ASSUME NEW k \in 1..n
      PROVE  \E i \in P : Rank(P, i) = k
  BY <1>5 DEF Surjection
<1>7. ASSUME NEW k \in 1..n
      PROVE  Nth(P, k) \in P /\ Rank(P, Nth(P, k)) = k
  BY <1>6 DEF Nth
<1>8. ASSUME NEW i \in P
      PROVE  Nth(P, Rank(P, i)) = i
  <2>1. Nth(P, Rank(P, i)) \in P /\ Rank(P, Nth(P, Rank(P, i))) = Rank(P, i)
    BY <1>2, <1>7
  <2> QED BY <2>1, <1>4 DEF Injection, IsInjective
<1> QED BY <1>1, <1>2, <1>7, <1>8

(* The places of a list are finitely many, as many as its length.          *)
LEMMA CountTo ==
  ASSUME NEW m \in Nat
  PROVE  IsFiniteSet(1..m) /\ Cardinality(1..m) = m
BY FS_Interval

(* What wake does with an invariant table: the entries that stay are a     *)
(* numbering of the places that were not taken.                            *)
LEMMA WakeKeeps ==
  ASSUME FutexInv, NEW t \in Thread, NEW n, NEW bits, NEW label \in Label,
         pc[t] \notin {"asleep", "timedOut"}, label \notin {"asleep", "timedOut"},
         wake(t, n, bits, label), MaxList \in Nat
  PROVE  /\ list' \in Seq(EntrySet) /\ Len(list') <= MaxList
         /\ pc' \in [Thread -> Label]
         /\ OneEntry' /\ SleeperListed' /\ OthersUnlisted'
         /\ \A u \in Thread : pc'[u] = "asleep" =>
                 pc[u] = "asleep" /\ \E i \in DOMAIN list \ Taken(n, bits) : OpenEntry(i, u)
<1> DEFINE taken == Taken(n, bits)
           rest == DOMAIN list \ taken
           woken == {list[i].thread : i \in {j \in taken : list[j].open}}
<1>1. /\ list' = EntriesAt(rest)
      /\ pc' = [u \in Thread |-> IF u = t THEN label
                  ELSE IF u \in woken /\ pc[u] = "asleep" THEN "woken" ELSE pc[u]]
  BY DEF wake
<1>2. /\ list \in Seq(EntrySet) /\ Len(list) \in Nat /\ Len(list) <= MaxList
      /\ DOMAIN list = 1..Len(list) /\ pc \in [Thread -> Label]
      /\ \A i \in DOMAIN list : list[i] \in EntrySet
  BY DEF FutexInv, FutexTypes
<1>3. taken \subseteq DOMAIN list
  BY DEF Taken
<1> HIDE DEF taken
<1>4. /\ rest \in SUBSET Nat /\ IsFiniteSet(rest)
      /\ Cardinality(rest) \in Nat /\ Cardinality(rest) <= Len(list)
  <2>0. Len(list) \in Nat
    BY <1>2
  <2>1. IsFiniteSet(1..Len(list)) /\ Cardinality(1..Len(list)) = Len(list)
    BY <2>0, CountTo
  <2>2. rest \in SUBSET (1..Len(list))
    BY <1>2
  <2>3. IsFiniteSet(rest) /\ Cardinality(rest) <= Len(list)
    BY <2>1, <2>2, FS_Subset
  <2> QED BY <2>2, <2>3, FS_CardinalityType
<1> DEFINE at(k) == Nth(rest, k)
<1>5. /\ \A k \in 1..Cardinality(rest) : at(k) \in rest
      /\ \A k, m \in 1..Cardinality(rest) : at(k) = at(m) => k = m
      /\ \A i \in rest : \E k \in 1..Cardinality(rest) : at(k) = i
  <2>1. /\ \A k \in 1..Cardinality(rest) : Nth(rest, k) \in rest /\ Rank(rest, Nth(rest, k)) = k
        /\ \A i \in rest : Rank(rest, i) \in 1..Cardinality(rest) /\ Nth(rest, Rank(rest, i)) = i
    BY <1>4, RankOnto
  <2> QED BY <2>1
<1>6. list' = [k \in 1..Cardinality(rest) |-> list[at(k)]]
  BY <1>1 DEF EntriesAt
<1> HIDE DEF at
<1>7. /\ DOMAIN list' = 1..Cardinality(rest)
      /\ \A k \in 1..Cardinality(rest) : list'[k] = list[at(k)] /\ at(k) \in DOMAIN list
  BY <1>5, <1>6
<1>8. list' \in Seq(EntrySet) /\ Len(list') = Cardinality(rest)
  <2> DEFINE m == Cardinality(rest)
  <2>1. m \in Nat /\ list' = [k \in 1..m |-> list[at(k)]] /\ \A k \in 1..m : list[at(k)] \in EntrySet
    BY <1>2, <1>4, <1>6, <1>7
  <2> HIDE DEF m
  <2>2. list' \in Seq(EntrySet) /\ Len(list') = m
    BY <2>1
  <2> QED BY <2>2 DEF m
<1>9. pc' \in [Thread -> Label]
  BY <1>1, <1>2 DEF Label
<1>10. ASSUME NEW u \in Thread, NEW k, OpenEntry(k, u)'
       PROVE  k \in 1..Cardinality(rest) /\ OpenEntry(at(k), u) /\ at(k) \in rest
  BY <1>10, <1>5, <1>7 DEF OpenEntry
<1>11. ASSUME NEW u \in Thread, NEW i \in rest, OpenEntry(i, u)
       PROVE  \E k : OpenEntry(k, u)'
  <2>1. PICK k \in 1..Cardinality(rest) : at(k) = i
    BY <1>5
  <2>2. OpenEntry(k, u)'
    BY <1>7, <1>11, <2>1 DEF OpenEntry
  <2> QED BY <2>2
<1>12. ASSUME NEW u \in Thread, NEW i, OpenEntry(i, u), i \in taken, u # t, pc[u] = "asleep"
       PROVE  pc'[u] = "woken"
  BY <1>1, <1>12 DEF OpenEntry
<1>13. ASSUME NEW u \in Thread, pc'[u] = "asleep"
       PROVE  pc[u] = "asleep" /\ \E i \in rest : OpenEntry(i, u)
  <2>1. u # t /\ pc[u] = "asleep" /\ u \notin woken
    BY <1>1, <1>13
  <2>2. PICK i : OpenEntry(i, u)
    BY <2>1 DEF FutexInv, SleeperListed
  <2>3. i \in rest
    BY <1>12, <1>13, <2>1, <2>2 DEF OpenEntry
  <2> QED BY <2>1, <2>2, <2>3
<1>14. OneEntry'
  <2> SUFFICES ASSUME NEW u \in Thread, NEW k, NEW m, OpenEntry(k, u)', OpenEntry(m, u)'
               PROVE  k = m
    BY DEF OneEntry
  <2>1. OpenEntry(at(k), u) /\ OpenEntry(at(m), u) /\ k \in 1..Cardinality(rest) /\ m \in 1..Cardinality(rest)
    BY <1>10
  <2>2. at(k) = at(m)
    BY <2>1 DEF FutexInv, OneEntry
  <2> QED BY <1>5, <2>1, <2>2
<1>15. SleeperListed'
  BY <1>11, <1>13 DEF SleeperListed
<1>16. OthersUnlisted'
  <2> SUFFICES ASSUME NEW u \in Thread, NEW k, OpenEntry(k, u)'
               PROVE  pc'[u] \in {"asleep", "timedOut"}
    BY DEF OthersUnlisted
  <2>1. OpenEntry(at(k), u) /\ at(k) \in rest
    BY <1>10
  <2>2. pc[u] \in {"asleep", "timedOut"}
    BY <2>1 DEF FutexInv, OthersUnlisted
  <2>3. u # t
    BY <2>2
  <2>4. pc[u] = "asleep" => u \notin woken
    <3> SUFFICES ASSUME pc[u] = "asleep", u \in woken
                 PROVE  FALSE
      OBVIOUS
    <3>1. PICK j \in taken : list[j].open /\ list[j].thread = u
      OBVIOUS
    <3>2. OpenEntry(j, u)
      BY <3>1, <1>3 DEF OpenEntry
    <3>3. j = at(k)
      BY <2>1, <3>2 DEF FutexInv, OneEntry
    <3> QED BY <2>1, <3>1, <3>3
  <2> QED BY <1>1, <2>2, <2>3, <2>4
<1> QED
  <2>1. Len(list') <= MaxList
    BY <1>2, <1>4, <1>8
  <2> QED BY <2>1, <1>8, <1>9, <1>13, <1>14, <1>15, <1>16 DEF taken

-----------------------------------------------------------------------------
(* At first the table is empty and nobody sleeps.                          *)
LEMMA FutexInitHolds ==
  ASSUME FutexAssumption, FutexInit
  PROVE  FutexInv
<1>1. FutexTypes
  BY DEF FutexAssumption, FutexInit, FutexTypes, Label
<1>2. ~ \E i, t : OpenEntry(i, t)
  BY DEF FutexInit, OpenEntry
<1>3. \A t \in Thread : pc[t] = "user"
  BY DEF FutexInit
<1> QED BY <1>1, <1>2, <1>3 DEF FutexInv, OneEntry, SleeperListed, OthersUnlisted, NoLostChange

(* A step that leaves the table alone, and moves one thread that has no    *)
(* entry to a label where it needs none.                                   *)
LEMMA MoveKeeps ==
  ASSUME FutexInv, NEW t \in Thread, NEW label \in Label, Goto(t, label), UNCHANGED list,
         pc[t] = "asleep" \/ label # "asleep",
         pc[t] \in {"asleep", "timedOut"} => label \in {"asleep", "timedOut"}
  PROVE  /\ list' \in Seq(EntrySet) /\ Len(list') <= MaxList
         /\ pc' \in [Thread -> Label]
         /\ OneEntry' /\ SleeperListed' /\ OthersUnlisted'
         /\ pc' = [pc EXCEPT ![t] = label]
<1>1. pc' = [pc EXCEPT ![t] = label] /\ list' = list /\ pc \in [Thread -> Label]
  BY DEF Goto, FutexInv, FutexTypes
<1>2. \A i, u : OpenEntry(i, u)' <=> OpenEntry(i, u)
  BY <1>1 DEF OpenEntry
<1>3. OneEntry'
  BY <1>2 DEF FutexInv, OneEntry
<1>4. SleeperListed'
  BY <1>1, <1>2 DEF FutexInv, SleeperListed
<1>5. OthersUnlisted'
  BY <1>1, <1>2 DEF FutexInv, OthersUnlisted
<1> QED BY <1>1, <1>3, <1>4, <1>5 DEF FutexInv, FutexTypes

(* A thread that drops its receiver, and goes back to its program. *)
LEMMA CloseKeeps ==
  ASSUME FutexInv, NEW t \in Thread, Goto(t, "user"), list' = Closed(t)
  PROVE  /\ list' \in Seq(EntrySet) /\ Len(list') <= MaxList
         /\ pc' \in [Thread -> Label]
         /\ OneEntry' /\ SleeperListed' /\ OthersUnlisted'
         /\ pc' = [pc EXCEPT ![t] = "user"]
<1>1. /\ pc' = [pc EXCEPT ![t] = "user"] /\ pc \in [Thread -> Label]
      /\ list \in Seq(EntrySet) /\ Len(list) <= MaxList /\ Len(list) \in Nat /\ DOMAIN list = 1..Len(list)
      /\ \A i \in DOMAIN list : list[i] \in EntrySet
  BY DEF Goto, FutexInv, FutexTypes
<1>2. \A i \in DOMAIN list : /\ Closed(t)[i] \in EntrySet
                             /\ Closed(t)[i].thread = list[i].thread
                             /\ Closed(t)[i].open <=> list[i].open /\ list[i].thread # t
  BY <1>1 DEF Closed, EntrySet
<1>3. DOMAIN list' = DOMAIN list
  BY DEF Closed
<1>4. \A i, u : OpenEntry(i, u)' <=> OpenEntry(i, u) /\ u # t
  BY <1>2, <1>3 DEF OpenEntry
<1>5. list' \in Seq(EntrySet) /\ Len(list') = Len(list)
  <2> DEFINE m == Len(list)
  <2>1. m \in Nat /\ list' = [k \in 1..m |-> Closed(t)[k]] /\ \A k \in 1..m : Closed(t)[k] \in EntrySet
    BY <1>1, <1>2, <1>3 DEF Closed
  <2> HIDE DEF m
  <2>2. list' \in Seq(EntrySet) /\ Len(list') = m
    BY <2>1
  <2> QED BY <2>2 DEF m
<1>6. OneEntry'
  BY <1>4 DEF FutexInv, OneEntry
<1>7. SleeperListed'
  BY <1>1, <1>4 DEF FutexInv, SleeperListed
<1>8. OthersUnlisted'
  BY <1>1, <1>4 DEF FutexInv, OthersUnlisted
<1> QED BY <1>1, <1>5, <1>6, <1>7, <1>8 DEF Label

(* wait's registration under the lock of the table keeps the invariant:    *)
(* the word is compared once more before the thread sleeps.                *)
LEMMA PushKeeps ==
  ASSUME FutexAssumption, FutexInv, NEW t \in Thread, NEW bits \in Bitset, wait_push(t, bits)
  PROVE  FutexInv'
<1>1. /\ pc \in [Thread -> Label] /\ list \in Seq(EntrySet) /\ Len(list) \in Nat /\ Len(list) < MaxList
      /\ pc[t] = "compared" /\ word' = word /\ val' = val /\ MaxList \in Nat
      /\ word \in Value /\ val \in [Thread -> Value]
  BY DEF wait_push, FutexInv, FutexTypes, FutexAssumption
<1>2. CASE StillEqual(t)
  <2>1. pc' = [pc EXCEPT ![t] = "asleep"] /\ list' = Append(list, Entry(t, bits)) /\ word = val[t]
    BY <1>2 DEF wait_push, Goto, StillEqual
  <2>2. Entry(t, bits) \in EntrySet /\ Entry(t, bits).thread = t /\ Entry(t, bits).open
    BY DEF Entry, EntrySet
  <2>3. /\ list' \in Seq(EntrySet) /\ Len(list') = Len(list) + 1
        /\ list'[Len(list) + 1] = Entry(t, bits)
        /\ \A i \in 1..Len(list) : list'[i] = list[i]
        /\ DOMAIN list' = 1..(Len(list) + 1) /\ DOMAIN list = 1..Len(list)
    BY <1>1, <2>1, <2>2
  <2>4. \A i, u : OpenEntry(i, u)' <=> OpenEntry(i, u) \/ (i = Len(list) + 1 /\ u = t)
    <3> SUFFICES ASSUME NEW i, NEW u
                 PROVE  OpenEntry(i, u)' <=> OpenEntry(i, u) \/ (i = Len(list) + 1 /\ u = t)
      OBVIOUS
    <3>1. CASE i \in DOMAIN list
      <4>1. i \in DOMAIN list' /\ list'[i] = list[i] /\ i # Len(list) + 1
        BY <1>1, <2>3, <3>1
      <4> QED BY <3>1, <4>1 DEF OpenEntry
    <3>2. CASE i = Len(list) + 1
      <4>1. i \in DOMAIN list' /\ i \notin DOMAIN list
        BY <1>1, <2>3, <3>2
      <4> QED BY <2>2, <2>3, <3>2, <4>1 DEF OpenEntry
    <3>3. CASE i \notin DOMAIN list /\ i # Len(list) + 1
      <4>1. i \notin DOMAIN list'
        BY <1>1, <2>3, <3>3
      <4> QED BY <3>3, <4>1 DEF OpenEntry
    <3> QED BY <3>1, <3>2, <3>3
  <2>5. ~ \E i : OpenEntry(i, t)
    BY <1>1 DEF FutexInv, OthersUnlisted
  <2>6. OneEntry'
    BY <2>4, <2>5 DEF FutexInv, OneEntry
  <2>7. SleeperListed'
    BY <1>1, <2>1, <2>4 DEF FutexInv, SleeperListed
  <2>8. OthersUnlisted'
    BY <1>1, <2>1, <2>4 DEF FutexInv, OthersUnlisted
  <2>9. NoLostChange'
    BY <1>1, <2>1 DEF FutexInv, NoLostChange, Label
  <2>10. pc' \in [Thread -> Label] /\ Len(list') <= MaxList
    <3>1. "asleep" \in Label
      BY DEF Label
    <3> QED BY <1>1, <2>1, <2>3, <3>1
  <2>11. FutexTypes'
    BY <1>1, <2>3, <2>10 DEF FutexTypes
  <2> QED BY <2>6, <2>7, <2>8, <2>9, <2>11 DEF FutexInv
<1>3. CASE ~StillEqual(t)
  <2>1. Goto(t, "user") /\ UNCHANGED list
    BY <1>3 DEF wait_push
  <2>2. /\ list' \in Seq(EntrySet) /\ Len(list') <= MaxList /\ pc' \in [Thread -> Label]
        /\ OneEntry' /\ SleeperListed' /\ OthersUnlisted' /\ pc' = [pc EXCEPT ![t] = "user"]
    BY <1>1, <2>1, MoveKeeps DEF Label
  <2>3. NoLostChange'
    BY <1>1, <2>2 DEF FutexInv, NoLostChange
  <2> QED BY <1>1, <2>2, <2>3 DEF FutexInv, FutexTypes
<1> QED BY <1>2, <1>3

(* Before it wakes everyone, or one thread, a thread may have changed the  *)
(* word: what a wake for everyone leaves nobody asleep.                    *)
LEMMA AllAreTaken ==
  ASSUME FutexAssumption, FutexInv
  PROVE  Taken(All, None) = DOMAIN list
<1> SUFFICES ASSUME NEW i \in DOMAIN list
             PROVE  i \in Taken(All, None)
  BY DEF Taken
<1> DEFINE before == {j \in 1..(i - 1) : matches_bitset(list[j], None) /\ Counts(list[j])}
<1>1. i \in 1..Len(list) /\ Len(list) \in Nat /\ Len(list) <= MaxList /\ MaxList \in Nat
  BY DEF FutexInv, FutexTypes, FutexAssumption
<1>2. i \in Nat /\ i - 1 \in Nat /\ i <= MaxList
  BY <1>1
<1>3. IsFiniteSet(1..(i - 1)) /\ Cardinality(1..(i - 1)) = i - 1
  BY <1>2, CountTo
<1>4. before \in SUBSET (1..(i - 1))
  OBVIOUS
<1>5. Cardinality(before) <= i - 1 /\ Cardinality(before) \in Nat
  <2> HIDE DEF before
  <2>1. IsFiniteSet(before) /\ Cardinality(before) <= Cardinality(1..(i - 1))
    BY <1>3, <1>4, FS_Subset
  <2>2. Cardinality(before) \in Nat
    BY <2>1, FS_CardinalityType
  <2> QED BY <1>3, <2>1, <2>2
<1>6. Cardinality(before) < All
  BY <1>1, <1>2, <1>5 DEF All
<1>7. matches_bitset(list[i], None)
  BY DEF matches_bitset
<1> QED BY <1>6, <1>7 DEF Taken

(* Every step keeps the invariant. A store may leave sleepers behind, but  *)
(* its thread has yet to wake them, and WakeAll leaves nobody asleep.      *)
LEMMA FutexStepKeeps ==
  ASSUME FutexAssumption, FutexInv, [FutexNext]_futexVars
  PROVE  FutexInv'
<1>0. pc \in [Thread -> Label] /\ word \in Value /\ val \in [Thread -> Value] /\ 0 \in Value /\ MaxList \in Nat
  BY DEF FutexInv, FutexTypes, FutexAssumption
<1>1. ASSUME NEW t \in Thread, NEW v \in Value, wait(t, v)
      PROVE  FutexInv'
  <2>1. Goto(t, "compared") /\ UNCHANGED list /\ pc[t] = "user" /\ word' = word /\ val' = [val EXCEPT ![t] = v]
    BY <1>1 DEF wait
  <2>2. /\ list' \in Seq(EntrySet) /\ Len(list') <= MaxList /\ pc' \in [Thread -> Label]
        /\ OneEntry' /\ SleeperListed' /\ OthersUnlisted' /\ pc' = [pc EXCEPT ![t] = "compared"]
    BY <2>1, MoveKeeps DEF Label
  <2>3. NoLostChange'
    BY <1>0, <2>1, <2>2 DEF FutexInv, NoLostChange
  <2> QED BY <1>0, <2>1, <2>2, <2>3 DEF FutexInv, FutexTypes
<1>2. ASSUME NEW t \in Thread, NEW v \in Value, Store(t, v)
      PROVE  FutexInv'
  <2>1. Goto(t, "stored") /\ UNCHANGED list /\ pc[t] = "user" /\ word' = v /\ val' = val
    BY <1>2 DEF Store
  <2>2. /\ list' \in Seq(EntrySet) /\ Len(list') <= MaxList /\ pc' \in [Thread -> Label]
        /\ OneEntry' /\ SleeperListed' /\ OthersUnlisted' /\ pc' = [pc EXCEPT ![t] = "stored"]
    BY <2>1, MoveKeeps DEF Label
  <2>3. NoLostChange'
    BY <1>0, <2>1, <2>2 DEF FutexInv, NoLostChange
  <2> QED BY <1>0, <2>1, <2>2, <2>3 DEF FutexInv, FutexTypes
<1>3. ASSUME NEW t \in Thread, do_exit(t)
      PROVE  FutexInv'
  <2>1. Goto(t, "exiting") /\ UNCHANGED list /\ pc[t] = "user" /\ word' = 0 /\ val' = val
    BY <1>3 DEF do_exit
  <2>2. /\ list' \in Seq(EntrySet) /\ Len(list') <= MaxList /\ pc' \in [Thread -> Label]
        /\ OneEntry' /\ SleeperListed' /\ OthersUnlisted' /\ pc' = [pc EXCEPT ![t] = "exiting"]
    BY <2>1, MoveKeeps DEF Label
  <2>3. NoLostChange'
    BY <1>0, <2>1, <2>2 DEF FutexInv, NoLostChange
  <2> QED BY <1>0, <2>1, <2>2, <2>3 DEF FutexInv, FutexTypes
<1>4. ASSUME NEW t \in Thread, NEW label \in {"user", "timedOut"},
             Goto(t, label), UNCHANGED <<word, list, val>>,
             label = "user" => pc[t] = "woken", label = "timedOut" => pc[t] = "asleep"
      PROVE  FutexInv'
  <2>2. /\ list' \in Seq(EntrySet) /\ Len(list') <= MaxList /\ pc' \in [Thread -> Label]
        /\ OneEntry' /\ SleeperListed' /\ OthersUnlisted' /\ pc' = [pc EXCEPT ![t] = label]
    BY <1>4, MoveKeeps DEF Label
  <2>3. NoLostChange'
    BY <1>0, <1>4, <2>2 DEF FutexInv, NoLostChange
  <2> QED BY <1>0, <1>4, <2>2, <2>3 DEF FutexInv, FutexTypes
<1>5. ASSUME NEW t \in Thread, Goto(t, "user"), list' = Closed(t), UNCHANGED <<word, val>>,
             pc[t] \in {"asleep", "woken", "timedOut"}
      PROVE  FutexInv'
  <2>2. /\ list' \in Seq(EntrySet) /\ Len(list') <= MaxList /\ pc' \in [Thread -> Label]
        /\ OneEntry' /\ SleeperListed' /\ OthersUnlisted' /\ pc' = [pc EXCEPT ![t] = "user"]
    BY <1>5, CloseKeeps
  <2>3. NoLostChange'
    BY <1>0, <1>5, <2>2 DEF FutexInv, NoLostChange
  <2> QED BY <1>0, <1>5, <2>2, <2>3 DEF FutexInv, FutexTypes
<1>6. ASSUME NEW t \in Thread, NEW n, NEW bits, NEW label \in {"user", "gone"},
             wake(t, n, bits, label), UNCHANGED <<word, val>>,
             \/ pc[t] = "user"
             \/ pc[t] = "exiting" /\ label = "gone"
             \/ pc[t] = "stored" /\ Taken(n, bits) = DOMAIN list
      PROVE  FutexInv'
  <2>1. /\ list' \in Seq(EntrySet) /\ Len(list') <= MaxList /\ pc' \in [Thread -> Label]
        /\ OneEntry' /\ SleeperListed' /\ OthersUnlisted'
        /\ \A u \in Thread : pc'[u] = "asleep" =>
              pc[u] = "asleep" /\ \E i \in DOMAIN list \ Taken(n, bits) : OpenEntry(i, u)
    <3>1. label \in Label /\ label \notin {"asleep", "timedOut"} /\ pc[t] \notin {"asleep", "timedOut"}
      BY <1>6 DEF Label
    <3> QED BY <1>0, <1>6, <3>1, WakeKeeps
  <2>2. \A u \in Thread : u # t /\ pc[u] # "asleep" => pc'[u] = pc[u]
    BY <1>6 DEF wake
  <2>3. pc'[t] = label
    BY <1>6 DEF wake
  <2>4. NoLostChange'
    <3> SUFFICES ASSUME NEW u \in Thread, pc'[u] = "asleep", val'[u] # word'
                 PROVE  \E w \in Thread : pc'[w] \in {"stored", "exiting", "gone"}
      BY DEF NoLostChange
    <3>1. Taken(n, bits) # DOMAIN list
      BY <2>1
    <3>2. PICK w \in Thread : pc[w] \in {"stored", "exiting", "gone"}
      BY <1>6, <2>1 DEF FutexInv, NoLostChange
    <3>3. w = t => pc'[t] = "gone"
      BY <1>6, <2>3, <3>1, <3>2
    <3> QED BY <2>2, <3>2, <3>3
  <2> QED BY <1>0, <1>6, <2>1, <2>4 DEF FutexInv, FutexTypes
<1>7. CASE UNCHANGED futexVars
  BY <1>7 DEF futexVars, FutexInv, FutexTypes, OneEntry, SleeperListed, OthersUnlisted, OpenEntry, NoLostChange
<1>8. ASSUME NEW t \in Thread, wait_recv(t) \/ wait_timeout(t)
      PROVE  FutexInv'
  <2>1. CASE wait_recv(t)
    <3>1. Goto(t, "user") /\ UNCHANGED <<word, list, val>> /\ pc[t] = "woken"
      BY <2>1 DEF wait_recv
    <3> QED BY <1>4, <3>1
  <2>2. CASE wait_timeout(t)
    <3>1. Goto(t, "timedOut") /\ UNCHANGED <<word, list, val>> /\ pc[t] = "asleep"
      BY <2>2 DEF wait_timeout
    <3> QED BY <1>4, <3>1
  <2> QED BY <1>8, <2>1, <2>2
<1>9. ASSUME NEW t \in Thread, wait_drop(t) \/ interruptable(t)
      PROVE  FutexInv'
  BY <1>5, <1>9 DEF wait_drop, interruptable
<1>10. ASSUME NEW t \in Thread, NEW n, NEW bits, futex_wake(t, n, bits)
       PROVE  FutexInv'
  <2>1. wake(t, n, bits, "user") /\ UNCHANGED <<word, val>> /\ pc[t] = "user"
    BY <1>10 DEF futex_wake
  <2> QED BY <1>6, <2>1
<1>11. ASSUME NEW t \in Thread, WakeAll(t)
       PROVE  FutexInv'
  BY <1>6, <1>11, AllAreTaken DEF WakeAll
<1>12. ASSUME NEW t \in Thread, do_exit_wake(t)
       PROVE  FutexInv'
  BY <1>6, <1>12 DEF do_exit_wake
<1> QED BY <1>1, <1>2, <1>3, <1>7, <1>8, <1>9, <1>10, <1>11, <1>12, PushKeeps DEF FutexNext

(* The invariant is as strong as what the run checks: the open entries of  *)
(* a thread, counted.                                                      *)
LEMMA EntriesCounted ==
  ASSUME FutexInv
  PROVE  FutexTypeOK /\ FutexSound
<1>1. FutexTypeOK
  <2>1. list \in Seq(EntrySet) /\ word \in Value /\ val \in [Thread -> Value]
    BY DEF FutexInv, FutexTypes
  <2>2. \A i \in DOMAIN list : list[i] \in EntrySet
    BY <2>1
  <2> QED BY <2>1, <2>2 DEF FutexTypeOK, EntrySet
<1>2. ASSUME NEW t \in Thread
      PROVE  Cardinality({i \in DOMAIN list : list[i].thread = t /\ list[i].open})
               \in (IF pc[t] = "asleep" THEN {1} ELSE IF pc[t] = "timedOut" THEN {0, 1} ELSE {0})
  <2> DEFINE mine == {i \in DOMAIN list : list[i].thread = t /\ list[i].open}
  <2>1. \A i : i \in mine <=> OpenEntry(i, t)
    BY DEF OpenEntry
  <2> HIDE DEF mine
  <2>2. \A i, j \in mine : i = j
    BY <2>1 DEF FutexInv, OneEntry
  <2>3. pc[t] = "asleep" => mine # {}
    BY <2>1 DEF FutexInv, SleeperListed
  <2>4. pc[t] \notin {"asleep", "timedOut"} => mine = {}
    BY <2>1 DEF FutexInv, OthersUnlisted
  <2>5. Cardinality({}) = 0
    BY FS_EmptySet
  <2>6. mine # {} => Cardinality(mine) = 1
    <3> SUFFICES ASSUME mine # {}
                 PROVE  Cardinality(mine) = 1
      OBVIOUS
    <3>1. PICK i : i \in mine
      OBVIOUS
    <3>2. mine = {i}
      BY <2>2, <3>1
    <3> QED BY <3>2, FS_Singleton
  <2>7. Cardinality(mine) \in (IF pc[t] = "asleep" THEN {1} ELSE IF pc[t] = "timedOut" THEN {0, 1} ELSE {0})
    BY <2>3, <2>4, <2>5, <2>6
  <2> QED BY <2>7 DEF mine
<1> QED BY <1>1, <1>2 DEF FutexInv, FutexSound, EntriesMatch

(* Futexes (futex.rs): for any number of threads, values and bit sets and  *)
(* any bound of the table, a thread that sleeps has exactly one open       *)
(* entry, nobody else has one, and nobody sleeps on a value that changed   *)
(* unless the wake is still to come (or an exit, which wakes only one,     *)
(* changed it).                                                            *)
THEOREM WaitersAreWoken == FutexSpec => []WaitersWoken
<1>0. FutexAssumption
  BY FutexConstants
<1>1. FutexInit => FutexInv
  BY <1>0, FutexInitHolds
<1>2. FutexInv /\ [FutexNext]_futexVars => FutexInv'
  BY <1>0, FutexStepKeeps
<1>3. FutexInv => WaitersWoken
  BY <1>0, EntriesCounted DEF WaitersWoken
<1> QED BY <1>1, <1>2, <1>3, PTL DEF FutexSpec
=============================================================================
