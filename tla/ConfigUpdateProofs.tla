--------------------------- MODULE ConfigUpdateProofs ---------------------------
(* Updates of a config and their rollback, for any numbers of programs,         *)
(* platforms, versions, pending uploads and failures: a config that can be      *)
(* loaded names what the bucket holds, and a rollback that went through leaves  *)
(* the bucket as it was.                                                        *)
EXTENDS ConfigUpdate, TLAPS

(* A program within ExecuteUpdateJobs, and an upload that left something behind *)
(* to roll back.                                                                *)
Busy(u)    == up[u].pc \notin {"closed", "ready"}
Done(item) == item.updated \/ item.backed

AtLoop == {"exists", "copy", "insert", "truncate", "write", "written"}

Engaged(u, i) == Busy(u) \/ Done(up[u].pending[i])

(* Two programs do not work at the same version without it being in doubt.      *)
Exclusive == \A u, v \in Updaters : u # v =>
    \A i \in DOMAIN up[u].pending, j \in DOMAIN up[v].pending :
        /\ up[u].pending[i].hash = up[v].pending[j].hash
        /\ Engaged(u, i) /\ Engaged(v, j)
        => up[u].pending[i].hash \in doubt

(* A config that is open has been read, a closed one has no uploads; only a     *)
(* backup that was made is used up.                                             *)
ReadOf(u) ==
    /\ up[u].pc # "closed" => up[u].data \in Config
    /\ up[u].pc = "closed" => up[u].pending = <<>>
    /\ \A i \in DOMAIN up[u].pending : up[u].pending[i].spent => up[u].pending[i].backed

Read == \A u \in Updaters : ReadOf(u)

(* The versions that configs name: the one on disk, and those in memory but for *)
(* what they have yet to upload and write.                                      *)
Named(h) ==
    \/ disk # Torn /\ \E pl \in Platforms : disk.hash[pl] = h
    \/ \E u \in Updaters :
        /\ up[u].pc # "closed" /\ (up[u].pc # "written" => h \notin Of(up[u].pending))
        /\ \E pl \in Platforms : up[u].data.hash[pl] = h

(* The rollback of u would not take version h away: what is not yet written has *)
(* a backup, which is of that version.                                          *)
LeavesIt(u, h) == up[u].pc # "written" =>
    \A i \in DOMAIN up[u].pending : up[u].pending[i].hash = h =>
        /\ up[u].pending[i].updated => up[u].pending[i].backed
        /\ up[u].pending[i].backed => cloud[Old(h)] = h

(* What is named is stored, and nobody's rollback would take it away.           *)
NamedStays == \A h \in Hashes \ (doubt \cup unkept) : Named(h) =>
    cloud[h] = h /\ \A u \in Updaters : LeavesIt(u, h)

(* How far Upload has come with upload i, in the loop and after it.             *)
Uploaded(u, i) ==
    LET p == up[u]  item == p.pending[i] IN
    IF p.pc \in {"truncate", "write", "written"} \/ i < p.at
    THEN item.updated /\ (item.hash \notin unkept => cloud[item.hash] = item.hash)
    ELSE /\ ~item.updated
         /\ item.backed => i = p.at /\ p.pc = "insert"
         /\ i = p.at /\ p.pc = "insert" /\ ~item.backed => cloud[item.hash] = None

(* An upload whose version is not in doubt is in its first attempt.             *)
ProgressOf(u) ==
    /\ up[u].pc \in AtLoop => up[u].at > 0
    /\ Busy(u) => up[u].before \in [Hashes -> Hashes \cup {None}]
    /\ \A i \in DOMAIN up[u].pending :
        Busy(u) /\ up[u].pending[i].hash \notin doubt =>
            /\ up[u].pc # "rollback" => Uploaded(u, i)
            /\ up[u].pending[i].spent => up[u].pc = "rollback" /\ i > up[u].at

Progress == \A u \in Updaters : ProgressOf(u)

(* The uploads that a rollback from here would undo.                            *)
ToUndo(u) == {i \in DOMAIN up[u].pending :
    Done(up[u].pending[i]) /\ (up[u].pc = "rollback" => i <= up[u].at)}

(* A rollback from here leaves the object h as it was at the start of the       *)
(* attempt: the first upload to a name that was free is the one to be deleted,  *)
(* every other has its backup; and the backup is of what was there.             *)
Restorable(u, h) ==
    LET its == {i \in ToUndo(u) : up[u].pending[i].hash = h} IN
    IF its = {} THEN cloud[h] = up[u].before[h]
    ELSE IF up[u].before[h] = None
    THEN /\ cloud[h] # None
         /\ \E f \in its : \A i \in its : f <= i /\ (i = f <=> ~up[u].pending[i].backed)
    ELSE cloud[Old(h)] = up[u].before[h] /\ \A i \in its : up[u].pending[i].backed

Unsure(u, h) == \E i \in DOMAIN up[u].pending : up[u].pending[i].hash = h /\ up[u].pending[i].unsure

Excused(u, h) == Unsure(u, h) \/ Overwritten(u, h)

RestoresOf(u) == Busy(u) =>
    \A h \in Of(up[u].pending) \ doubt : Excused(u, h) \/ Restorable(u, h)

Restores == \A u \in Updaters : RestoresOf(u)

IInv ==
    /\ TypeOK
    /\ Exclusive
    /\ Read
    /\ NamedStays
    /\ Progress
    /\ Restores

--------------------------------------------------------------------------------
USE ConfigUpdateAssumption

(* An upload that has changed is the same upload, in the same place.            *)
LEMMA Amended ==
    ASSUME NEW s \in Seq(Uploads), NEW n \in DOMAIN s, NEW item \in Uploads, item.hash = s[n].hash,
           NEW r, r = [s EXCEPT ![n] = item]
    PROVE  /\ r \in Seq(Uploads) /\ Len(r) = Len(s) /\ DOMAIN r = DOMAIN s
           /\ \A i \in DOMAIN s : r[i] = (IF i = n THEN item ELSE s[i])
           /\ \A i \in DOMAIN s : r[i].hash = s[i].hash
           /\ Of(r) = Of(s)
<1>1. /\ r \in Seq(Uploads) /\ Len(r) = Len(s) /\ DOMAIN r = DOMAIN s
      /\ \A i \in DOMAIN s : r[i] = (IF i = n THEN item ELSE s[i])
  OBVIOUS
<1>2. \A i \in DOMAIN s : r[i].hash = s[i].hash
  BY <1>1
<1> QED
  BY <1>1, <1>2 DEF Of

(* The object of a hash, and its backup.                                        *)
Untouched(h) == cloud'[h] = cloud[h] /\ cloud'[Old(h)] = cloud[Old(h)]

(* What a step of one program leaves alone of the others.                       *)
OthersSame(u) ==
    up' \in [Updaters -> BaseConfigs] /\ \A v \in Updaters \ {u} : up'[v] = up[v]

SameUploads(u) ==
    /\ DOMAIN up'[u].pending = DOMAIN up[u].pending
    /\ \A i \in DOMAIN up[u].pending : up'[u].pending[i].hash = up[u].pending[i].hash

LEMMA SameOf == ASSUME NEW u, SameUploads(u) PROVE Of(up'[u].pending) = Of(up[u].pending)
BY DEF SameUploads, Of

(* Others stay excluded if a program engages in no more uploads than it was in. *)
LEMMA ExclusiveKept ==
    ASSUME Exclusive, NEW u \in Updaters, OthersSame(u), doubt \subseteq doubt',
           \A i \in DOMAIN up'[u].pending : Engaged(u, i)' =>
               /\ i \in DOMAIN up[u].pending /\ Engaged(u, i)
               /\ up'[u].pending[i].hash = up[u].pending[i].hash
    PROVE  Exclusive'
<1> SUFFICES ASSUME NEW x \in Updaters, NEW y \in Updaters, x # y,
                    NEW i \in DOMAIN up'[x].pending, NEW j \in DOMAIN up'[y].pending,
                    up'[x].pending[i].hash = up'[y].pending[j].hash,
                    Engaged(x, i)', Engaged(y, j)'
             PROVE  up'[x].pending[i].hash \in doubt'
  BY DEF Exclusive
<1>1. ASSUME NEW v \in Updaters, NEW k \in DOMAIN up'[v].pending, Engaged(v, k)'
      PROVE  /\ k \in DOMAIN up[v].pending /\ Engaged(v, k)
             /\ up'[v].pending[k].hash = up[v].pending[k].hash
  <2>1. CASE v = u
    BY <2>1, <1>1
  <2>2. CASE v # u
    BY <2>2, <1>1 DEF OthersSame, Engaged, Busy
  <2> QED
    BY <2>1, <2>2
<1> QED
  BY <1>1 DEF Exclusive

(* A program at work on a version is not disturbed by the step of another.      *)
LEMMA OthersKept ==
    ASSUME IInv, NEW u \in Updaters, OthersSame(u),
           doubt \subseteq doubt', unkept \subseteq unkept',
           \A h \in Hashes \ doubt' : Untouched(h) \/ (Busy(u) /\ h \in Of(up[u].pending)),
           NEW v \in Updaters, v # u
    PROVE  ProgressOf(v)' /\ RestoresOf(v)'
<1>1. up'[v] = up[v] /\ up[v].pending \in Seq(Uploads)
  BY DEF OthersSame, IInv, TypeOK, BaseConfigs
<1>2. ASSUME Busy(v), NEW j \in DOMAIN up[v].pending, up[v].pending[j].hash \notin doubt'
      PROVE  /\ up[v].pending[j].hash \notin doubt
             /\ Untouched(up[v].pending[j].hash)
  <2> DEFINE h == up[v].pending[j].hash
  <2>1. h \in Hashes \ doubt'
    <3>1. up[v].pending[j] \in Uploads
      BY <1>1
    <3> QED
      BY <3>1, <1>2 DEF Uploads
  <2>2. ASSUME Busy(u), h \in Of(up[u].pending) PROVE FALSE
    <3>1. PICK i \in DOMAIN up[u].pending : up[u].pending[i].hash = h
      BY <2>2 DEF Of
    <3> QED
      BY <3>1, <2>1, <2>2, <1>2 DEF IInv, Exclusive, Engaged
  <2> QED
    BY <2>1, <2>2
<1>3. ProgressOf(v)'
  <2>1. ASSUME NEW i \in DOMAIN up[v].pending, Uploaded(v, i), Untouched(up[v].pending[i].hash)
        PROVE  Uploaded(v, i)'
    BY <2>1, <1>1 DEF Uploaded, Untouched
  <2> QED
    BY <2>1, <1>1, <1>2 DEF IInv, Progress, ProgressOf, Busy
<1>4. ASSUME Busy(v)', NEW h \in Of(up'[v].pending) \ doubt' PROVE Excused(v, h)' \/ Restorable(v, h)'
  <2>1. Busy(v) /\ h \in Of(up[v].pending)
    BY <1>1, <1>4 DEF Busy
  <2>2. PICK j \in DOMAIN up[v].pending : up[v].pending[j].hash = h
    BY <2>1 DEF Of
  <2>3. h \notin doubt /\ Untouched(h)
    BY <2>1, <2>2, <1>2, <1>4
  <2>4. Excused(v, h) \/ Restorable(v, h)
    BY <2>1, <2>3 DEF IInv, Restores, RestoresOf
  <2>5. ToUndo(v)' = ToUndo(v)
    BY <1>1 DEF ToUndo
  <2> QED
    BY <2>3, <2>4, <2>5, <1>1, SMTT(60) DEF Excused, Unsure, Overwritten, Restorable, Untouched
<1> QED
  BY <1>3, <1>4 DEF RestoresOf

(* What is named stays stored when nothing more is named.                       *)
LEMMA StaysKept ==
    ASSUME IInv, NEW u \in Updaters, OthersSame(u),
           doubt \subseteq doubt', unkept \subseteq unkept',
           \A h \in Hashes \ (doubt' \cup unkept') : Named(h)' =>
               /\ Named(h)
               /\ cloud'[h] \in {cloud[h], h} /\ cloud'[Old(h)] \in {cloud[Old(h)], h}
               /\ LeavesIt(u, h)'
    PROVE  NamedStays'
<1> SUFFICES ASSUME NEW h \in Hashes \ (doubt' \cup unkept'), Named(h)'
             PROVE  cloud'[h] = h /\ \A v \in Updaters : LeavesIt(v, h)'
  BY DEF NamedStays
<1>1. h \notin doubt \cup unkept /\ Named(h)
  OBVIOUS
<1>2. cloud'[h] = h
  BY <1>1 DEF IInv, NamedStays
<1>3. ASSUME NEW v \in Updaters, v # u PROVE LeavesIt(v, h)'
  <2>1. LeavesIt(v, h) /\ up'[v] = up[v]
    BY <1>1, <1>3 DEF IInv, NamedStays, OthersSame
  <2> QED
    BY <2>1 DEF LeavesIt
<1> QED
  BY <1>2, <1>3

(* A program names no more while it keeps its config and its uploads.           *)
LEMMA NamesKept ==
    ASSUME NEW u \in Updaters, OthersSame(u), SameUploads(u), disk' \in {disk, Torn},
           up[u].pc # "closed", up'[u].pc # "written", up'[u].data = up[u].data,
           NEW h, Named(h)'
    PROVE  Named(h)
<1>1. CASE disk' # Torn /\ \E pl \in Platforms : disk'.hash[pl] = h
  BY <1>1 DEF Named
<1>2. CASE \E v \in Updaters :
              /\ up'[v].pc # "closed" /\ (up'[v].pc # "written" => h \notin Of(up'[v].pending))
              /\ \E pl \in Platforms : up'[v].data.hash[pl] = h
  <2>1. PICK v \in Updaters :
              /\ up'[v].pc # "closed" /\ (up'[v].pc # "written" => h \notin Of(up'[v].pending))
              /\ \E pl \in Platforms : up'[v].data.hash[pl] = h
    BY <1>2
  <2>2. /\ up[v].pc # "closed" /\ (up[v].pc # "written" => h \notin Of(up[v].pending))
        /\ \E pl \in Platforms : up[v].data.hash[pl] = h
    BY <2>1, SameOf DEF OthersSame
  <2> QED
    BY <2>2 DEF Named
<1> QED
  BY <1>1, <1>2 DEF Named

(* The step of a program that keeps its part of the invariant.                  *)
LEMMA StepKeeps ==
    ASSUME IInv, NEW u \in Updaters, TypeOK', OthersSame(u), doubt \subseteq doubt',
           unkept \subseteq unkept',
           \A h \in Hashes \ doubt' : Untouched(h) \/ (Busy(u) /\ h \in Of(up[u].pending)),
           Exclusive', NamedStays',
           ReadOf(u)', ProgressOf(u)', RestoresOf(u)'
    PROVE  IInv'
<1>1. ASSUME NEW v \in Updaters PROVE ReadOf(v)' /\ ProgressOf(v)' /\ RestoresOf(v)'
  <2>1. CASE v = u
    BY <2>1
  <2>2. CASE v # u
    <3>1. ReadOf(v)'
      BY <2>2 DEF IInv, Read, ReadOf, OthersSame
    <3> QED
      BY <3>1, <2>2, OthersKept
  <2> QED
    BY <2>1, <2>2
<1> QED
  BY <1>1 DEF IInv, Read, Progress, Restores

(* The same for the steps within ExecuteUpdateJobs.                             *)
LEMMA WorkKeeps ==
    ASSUME IInv, NEW u \in Updaters, TypeOK', OthersSame(u), SameUploads(u), Busy(u),
           doubt' = doubt, unkept \subseteq unkept', disk' \in {disk, Torn},
           up'[u].data = up[u].data, up'[u].pc \notin {"closed", "written"},
           \A i \in DOMAIN up'[u].pending : up'[u].pending[i].spent => up'[u].pending[i].backed,
           \A h \in Hashes : Untouched(h) \/ h \in Of(up[u].pending),
           \A h \in Hashes \ (doubt \cup unkept') : Named(h) =>
               /\ cloud'[h] \in {cloud[h], h} /\ cloud'[Old(h)] \in {cloud[Old(h)], h}
               /\ LeavesIt(u, h)',
           ProgressOf(u)', RestoresOf(u)'
    PROVE  IInv'
<1>1. up[u].pc # "closed"
  BY DEF Busy
<1>2. Exclusive'
  <2>1. \A i \in DOMAIN up'[u].pending : i \in DOMAIN up[u].pending /\ Engaged(u, i)
    BY DEF SameUploads, Engaged
  <2> QED
    BY <2>1, ExclusiveKept DEF IInv, SameUploads
<1>3. NamedStays'
  <2>1. \A h \in Hashes \ (doubt' \cup unkept') : Named(h)' => Named(h)
    BY <1>1, NamesKept
  <2> QED
    BY <2>1, StaysKept
<1>4. ReadOf(u)'
  BY <1>1 DEF IInv, Read, ReadOf
<1>5. doubt \subseteq doubt'
  OBVIOUS
<1>6. \A h \in Hashes \ doubt' : Untouched(h) \/ (Busy(u) /\ h \in Of(up[u].pending))
  OBVIOUS
<1> QED
  BY <1>2, <1>3, <1>4, <1>5, <1>6, StepKeeps

(* What a rollback would have to do for the versions that a step is not about   *)
(* is as before.                                                                *)
LEMMA RestoresBut ==
    ASSUME IInv, NEW u \in Updaters, Busy(u), SameUploads(u), doubt' = doubt,
           up'[u].before = up[u].before, NEW g,
           \A h \in Hashes \ {g} : Untouched(h),
           \A i \in DOMAIN up[u].pending : up[u].pending[i].hash # g =>
               /\ i \in ToUndo(u)' <=> i \in ToUndo(u)
               /\ up'[u].pending[i].backed = up[u].pending[i].backed
               /\ up'[u].pending[i].unsure = up[u].pending[i].unsure,
           g \in Of(up[u].pending) \ doubt => Excused(u, g)' \/ Restorable(u, g)'
    PROVE  RestoresOf(u)'
<1> SUFFICES ASSUME NEW h \in Of(up[u].pending) \ doubt
             PROVE  Excused(u, h)' \/ Restorable(u, h)'
  BY SameOf DEF RestoresOf
<1>1. CASE h = g
  BY <1>1
<1>2. CASE h # g
  <2>1. h \in Hashes
    <3>1. PICK i \in DOMAIN up[u].pending : up[u].pending[i].hash = h
      BY DEF Of
    <3>2. up[u].pending[i] \in Uploads
      BY DEF IInv, TypeOK, BaseConfigs
    <3> QED
      BY <3>1, <3>2 DEF Uploads
  <2>2. Untouched(h)
    BY <2>1, <1>2
  <2>3. Excused(u, h) \/ Restorable(u, h)
    BY DEF IInv, Restores, RestoresOf
  <2>4. CASE Excused(u, h)
    <3>1. CASE Unsure(u, h)
      BY <3>1, <1>2 DEF Excused, Unsure, SameUploads
    <3>2. CASE Overwritten(u, h)
      BY <3>2, <1>2 DEF Excused, Overwritten, SameUploads
    <3> QED
      BY <2>4, <3>1, <3>2 DEF Excused
  <2>5. CASE Restorable(u, h)
    <3>1. {i \in ToUndo(u)' : up'[u].pending[i].hash = h} = {i \in ToUndo(u) : up[u].pending[i].hash = h}
      BY <1>2 DEF ToUndo, SameUploads
    <3>2. \A i \in {k \in ToUndo(u) : up[u].pending[k].hash = h} :
            up'[u].pending[i].backed = up[u].pending[i].backed
      BY <1>2 DEF ToUndo
    <3> QED
      BY <3>1, <3>2, <2>2, <2>5, SMTT(60) DEF Restorable, Untouched
  <2> QED
    BY <2>3, <2>4, <2>5
<1> QED
  BY <1>1, <1>2

(* The next state of a step that leaves the config of one program as q.         *)
LEMMA Moves ==
    ASSUME TypeOK, NEW u \in Updaters, NEW q \in BaseConfigs, up' = [up EXCEPT ![u] = q],
           q.at <= Len(q.pending), disk' \in Config \cup {Torn},
           cloud' \in [Names -> Hashes \cup {None}], events' \in 0..MaxEvents,
           doubt' \subseteq Hashes, unkept' \subseteq Hashes
    PROVE  up'[u] = q /\ OthersSame(u) /\ TypeOK'
<1>1. up'[u] = q /\ OthersSame(u)
  BY DEF TypeOK, OthersSame
<1>2. \A v \in Updaters : up'[v].at <= Len(up'[v].pending)
  BY <1>1 DEF TypeOK, OthersSame
<1> QED
  BY <1>1, <1>2 DEF TypeOK, OthersSame

(* The program at work and its current upload.                                  *)
LEMMA AtWork ==
    ASSUME IInv, NEW u \in Updaters
    PROVE  /\ up[u] \in BaseConfigs /\ up[u].pending \in Seq(Uploads) /\ up[u].at \in Nat
           /\ up[u].at <= Len(up[u].pending)
           /\ \A i \in DOMAIN up[u].pending :
                up[u].pending[i] \in Uploads /\ up[u].pending[i].hash \in Hashes
           /\ up[u].pc \in AtLoop =>
                /\ Busy(u) /\ up[u].at \in DOMAIN up[u].pending
                /\ Item(u) \in Uploads /\ Item(u).hash \in Hashes
                /\ Item(u).hash \in Of(up[u].pending)
<1>1. /\ up[u] \in BaseConfigs /\ up[u].pending \in Seq(Uploads) /\ up[u].at \in Nat
      /\ up[u].at <= Len(up[u].pending)
  BY DEF IInv, TypeOK, BaseConfigs
<1>2. \A i \in DOMAIN up[u].pending :
                up[u].pending[i] \in Uploads /\ up[u].pending[i].hash \in Hashes
  <2>1. ASSUME NEW i \in DOMAIN up[u].pending PROVE up[u].pending[i] \in Uploads
    BY <1>1
  <2> QED
    BY <2>1 DEF Uploads
<1>3. ASSUME up[u].pc \in AtLoop
      PROVE  Busy(u) /\ up[u].at \in DOMAIN up[u].pending
  <2>1. up[u].at > 0
    BY <1>3 DEF IInv, Progress, ProgressOf
  <2> QED
    BY <2>1, <1>1, <1>3 DEF Busy, AtLoop
<1> QED
  BY <1>1, <1>2, <1>3 DEF Item, Of, Uploads

--------------------------------------------------------------------------------
(* What is named is left where it is by a program whose uploads stay the same.  *)
LEMMA LeavesItKept ==
    ASSUME IInv, NEW u \in Updaters, up[u].pc # "written", up'[u].pending = up[u].pending,
           \A h \in Hashes :
               cloud'[h] = cloud[h] /\ cloud'[Old(h)] \in {cloud[Old(h)], cloud[h]}
    PROVE  \A h \in Hashes \ (doubt \cup unkept') : unkept \subseteq unkept' /\ Named(h) =>
               /\ cloud'[h] \in {cloud[h], h} /\ cloud'[Old(h)] \in {cloud[Old(h)], h}
               /\ LeavesIt(u, h)'
<1> SUFFICES ASSUME NEW h \in Hashes \ (doubt \cup unkept'), unkept \subseteq unkept', Named(h)
             PROVE  /\ cloud'[h] \in {cloud[h], h} /\ cloud'[Old(h)] \in {cloud[Old(h)], h}
                    /\ LeavesIt(u, h)'
  OBVIOUS
<1>1. cloud[h] = h /\ LeavesIt(u, h)
  BY DEF IInv, NamedStays
<1> QED
  BY <1>1 DEF LeavesIt

(* What a rollback would restore stays so while neither the uploads nor the     *)
(* objects change.                                                              *)
LEMMA RestoresKept ==
    ASSUME IInv, NEW u \in Updaters, Busy(u), doubt' = doubt, up'[u].pending = up[u].pending,
           up'[u].before = up[u].before, ToUndo(u)' = ToUndo(u), \A h \in Hashes : Untouched(h)
    PROVE  RestoresOf(u)'
<1> SUFFICES ASSUME NEW h \in Of(up[u].pending) \ doubt PROVE Excused(u, h)' \/ Restorable(u, h)'
  BY DEF RestoresOf
<1>1. Excused(u, h) \/ Restorable(u, h)
  BY DEF IInv, Restores, RestoresOf
<1>2. h \in Hashes
  BY AtWork DEF Of
<1>3. Excused(u, h) => Excused(u, h)'
  BY DEF Excused, Unsure, Overwritten
<1>4. Restorable(u, h) => Restorable(u, h)'
  BY <1>2, SMTT(60) DEF Restorable, Untouched
<1> QED
  BY <1>1, <1>3, <1>4

(* An object that was there and has been replaced once has lost its backup with *)
(* the next upload to its name.                                                 *)
LEMMA CopiedAgain ==
    ASSUME IInv, NEW u \in Updaters, up[u].pc \in {"copy", "insert"},
           up[u].pc = "insert" => ~Item(u).backed, NEW g, g = Item(u).hash, g \notin doubt,
           Restorable(u, g), up[u].before[g] # None,
           {i \in ToUndo(u) : up[u].pending[i].hash = g} # {}
    PROVE  Overwritten(u, g)
<1> DEFINE p == up[u]
<1>1. PICK i \in ToUndo(u) : p.pending[i].hash = g
  OBVIOUS
<1>2. i \in DOMAIN p.pending /\ Done(p.pending[i]) /\ Busy(u)
  BY <1>1 DEF ToUndo, Busy
<1>3. Uploaded(u, i)
  BY <1>1, <1>2 DEF IInv, Progress, ProgressOf
<1>4. i < p.at
  BY <1>2, <1>3 DEF Uploaded, Done, Item
<1>5. p.pending[i].backed
  BY <1>1 DEF Restorable
<1>6. p.at \in DOMAIN p.pending /\ p.pending[p.at].hash = g
  BY AtWork DEF AtLoop, Item
<1> QED
  BY <1>1, <1>2, <1>4, <1>5, <1>6 DEF Overwritten

(* The handler of exceptions starts where the loop has come to.                 *)
LEMMA StartRollbackKeeps ==
    ASSUME IInv, NEW u \in Updaters, StartRollback(u), up[u].pc \in AtLoop,
           disk' = disk, doubt' = doubt, events' \in 0..MaxEvents,
           unkept \subseteq unkept', unkept' \subseteq Hashes,
           up[u].pc = "written" => Of(up[u].pending) \subseteq unkept',
           cloud' \in [Names -> Hashes \cup {None}], \A h \in Hashes : cloud'[h] = cloud[h],
           \A h \in Hashes : cloud'[Old(h)] = cloud[Old(h)] \/
               (up[u].pc = "copy" /\ h = Item(u).hash /\ cloud'[Old(h)] = cloud[h])
    PROVE  IInv'
<1> DEFINE p == up[u]
           q == [p EXCEPT !.pc = "rollback", !.at = Len(p.pending)]
<1>1. p \in BaseConfigs /\ p.pending \in Seq(Uploads) /\ p.at \in DOMAIN p.pending /\ Busy(u)
      /\ Item(u).hash \in Of(p.pending)
  BY AtWork
<1>2. q \in BaseConfigs
  <2>1. Len(p.pending) \in Nat
    BY <1>1
  <2> QED
    BY <1>1, <2>1 DEF BaseConfigs
<1>3. q.pc = "rollback" /\ q.at = Len(p.pending) /\ q.pending = p.pending /\ q.data = p.data
      /\ q.before = p.before
  BY <1>1 DEF BaseConfigs
<1>4. up' = [up EXCEPT ![u] = q]
  BY DEF StartRollback, IInv, TypeOK
<1>5. up'[u] = q /\ OthersSame(u) /\ TypeOK'
  <2>1. disk' \in Config \cup {Torn} /\ doubt' \subseteq Hashes /\ q.at <= Len(q.pending)
    BY <1>1, <1>3 DEF IInv, TypeOK
  <2> HIDE DEF q
  <2> QED
    BY <2>1, <1>2, <1>4, Moves DEF IInv
<1> HIDE DEF q
<1>6. SameUploads(u) /\ Busy(u)'
  BY <1>3, <1>5 DEF SameUploads, Busy
<1>7. ProgressOf(u)'
  BY <1>1, <1>3, <1>5 DEF ProgressOf, IInv, Progress, Busy, AtLoop
<1>8. RestoresOf(u)'
  <2>1. \A i \in DOMAIN p.pending : i \in ToUndo(u)' <=> i \in ToUndo(u)
    BY <1>1, <1>3, <1>5 DEF ToUndo, AtLoop
  <2>2. ToUndo(u)' = ToUndo(u)
    BY <2>1, <1>3, <1>5 DEF ToUndo
  <2>3. ASSUME NEW h \in Of(p.pending) \ doubt PROVE Excused(u, h)' \/ Restorable(u, h)'
    <3> DEFINE its == {i \in ToUndo(u) : p.pending[i].hash = h}
    <3>1. Excused(u, h) \/ Restorable(u, h)
      BY <1>1 DEF IInv, Restores, RestoresOf
    <3>2. h \in Hashes
      BY AtWork DEF Of
    <3>3. Excused(u, h) => Excused(u, h)'
      BY <1>3, <1>5 DEF Excused, Unsure, Overwritten
    <3>4. its = {i \in ToUndo(u)' : up'[u].pending[i].hash = h}
      BY <2>2, <1>3, <1>5
    <3>5. CASE Restorable(u, h) /\ (its = {} \/ p.before[h] = None \/ cloud'[Old(h)] = cloud[Old(h)])
      BY <3>2, <3>4, <3>5, <1>3, <1>5, SMTT(60) DEF Restorable
    <3>6. CASE Restorable(u, h) /\ its # {} /\ p.before[h] # None /\ cloud'[Old(h)] # cloud[Old(h)]
      <4>1. p.pc = "copy" /\ h = Item(u).hash
        BY <3>2, <3>6
      <4>2. Overwritten(u, h)
        BY <3>6, <4>1, CopiedAgain
      <4> QED
        BY <4>2, <3>3 DEF Excused
    <3> QED
      BY <3>1, <3>3, <3>5, <3>6
  <2> QED
    BY <2>3, <1>3, <1>5 DEF RestoresOf
<1>9. \A h \in Hashes \ (doubt \cup unkept') : Named(h) =>
               /\ cloud'[h] \in {cloud[h], h} /\ cloud'[Old(h)] \in {cloud[Old(h)], h}
               /\ LeavesIt(u, h)'
  <2>1. CASE p.pc # "written"
    BY <2>1, <1>3, <1>5, LeavesItKept
  <2>2. CASE p.pc = "written"
    <3>1. \A h \in Hashes \ unkept' : h \notin Of(up'[u].pending)
      BY <2>2, <1>3, <1>5
    <3>2. \A h \in Hashes \ unkept' : LeavesIt(u, h)'
      BY <3>1 DEF LeavesIt, Of
    <3> QED
      BY <3>2, <2>2
  <2> QED
    BY <2>1, <2>2
<1>10. \A i \in DOMAIN up'[u].pending : up'[u].pending[i].spent => up'[u].pending[i].backed
  BY <1>3, <1>5 DEF IInv, Read, ReadOf
<1>11. \A h \in Hashes : Untouched(h) \/ h \in Of(p.pending)
  BY <1>1 DEF Untouched
<1> QED
  BY <1>1, <1>3, <1>5, <1>6, <1>7, <1>8, <1>9, <1>10, <1>11, WorkKeeps

LEMMA ExistsKeeps == ASSUME IInv, NEW u \in Updaters, Exists(u) PROVE IInv'
<1> DEFINE p == up[u]
<1>1. p \in BaseConfigs /\ p.pending \in Seq(Uploads) /\ p.at \in DOMAIN p.pending /\ Busy(u)
      /\ p.pc = "exists" /\ UNCHANGED <<disk, cloud, events, doubt, unkept>>
  BY AtWork DEF Exists, AtLoop
<1>3. CASE StartRollback(u)
  BY <1>1, <1>3, StartRollbackKeeps DEF IInv, TypeOK, AtLoop
<1>4. ASSUME NEW there \in {"insert", "copy"}, Go(u, there),
             there = "insert" => cloud[Item(u).hash] = None
      PROVE  IInv'
  <2> DEFINE q == [p EXCEPT !.pc = there]
  <2>1. q \in BaseConfigs
    BY <1>1 DEF BaseConfigs
  <2>2. q.pc = there /\ q.at = p.at /\ q.pending = p.pending /\ q.data = p.data /\ q.before = p.before
    BY <1>1 DEF BaseConfigs
  <2>3. up' = [up EXCEPT ![u] = q]
    BY <1>4 DEF Go, IInv, TypeOK
  <2> HIDE DEF q
  <2>4. up'[u] = q /\ OthersSame(u) /\ TypeOK'
    <3>1. /\ disk' \in Config \cup {Torn} /\ doubt' \subseteq Hashes /\ unkept' \subseteq Hashes
          /\ q.at <= Len(q.pending)
          /\ cloud' \in [Names -> Hashes \cup {None}] /\ events' \in 0..MaxEvents
      BY <1>1, <2>2 DEF IInv, TypeOK
    <3> QED
      BY <3>1, <2>1, <2>3, Moves DEF IInv
  <2>5. SameUploads(u) /\ Busy(u)'
    BY <2>2, <2>4 DEF SameUploads, Busy
  <2>6. ProgressOf(u)'
    <3>1. \A i \in DOMAIN p.pending : p.pending[i].hash \notin doubt =>
             Uploaded(u, i) /\ ~p.pending[i].spent
      BY <1>1 DEF IInv, Progress, ProgressOf
    <3>2. \A i \in DOMAIN p.pending : p.pending[i].hash \notin doubt => Uploaded(u, i)'
      BY <3>1, <1>1, <1>4, <2>2, <2>4 DEF Uploaded, Item
    <3>3. p.before \in [Hashes -> Hashes \cup {None}] /\ p.at > 0
      BY <1>1 DEF IInv, Progress, ProgressOf
    <3> QED
      BY <3>1, <3>2, <3>3, <1>1, <2>2, <2>4 DEF ProgressOf, AtLoop
  <2>7. RestoresOf(u)'
    <3>1. ToUndo(u)' = ToUndo(u)
      BY <1>1, <2>2, <2>4 DEF ToUndo
    <3> QED
      BY <3>1, <1>1, <2>2, <2>4, RestoresKept DEF Untouched
  <2>8. \A h \in Hashes \ (doubt \cup unkept') : Named(h) =>
               /\ cloud'[h] \in {cloud[h], h} /\ cloud'[Old(h)] \in {cloud[Old(h)], h}
               /\ LeavesIt(u, h)'
    BY <1>1, <2>2, <2>4, LeavesItKept
  <2>9. \A i \in DOMAIN up'[u].pending : up'[u].pending[i].spent => up'[u].pending[i].backed
    BY <2>2, <2>4 DEF IInv, Read, ReadOf
  <2> QED
    BY <1>1, <2>2, <2>4, <2>5, <2>6, <2>7, <2>8, <2>9, WorkKeeps DEF Untouched
<1> QED
  BY <1>3, <1>4 DEF Exists

(* The names in the bucket are distinct.                                        *)
LEMMA DistinctNames ==
    /\ \A h \in Hashes : h \in Names /\ Old(h) \in Names /\ Old(h) # NoneKey
    /\ \A g, h \in Hashes : Old(g) = Old(h) => g = h
    /\ NoneKey \in Names
<1>1. \A h : Len(Old(h)) = 2 /\ Len(NoneKey) = 1
  BY DEF Old, NoneKey
<1>2. \A g, h \in Hashes : Old(g) = Old(h) => g = h
  BY DEF Old
<1> QED
  BY <1>1, <1>2 DEF Names

(* A backup is under its own name, and changes nothing else.                    *)
LEMMA BackupIsApart ==
    ASSUME IInv, NEW u \in Updaters, up[u].pc = "copy",
           cloud' = [cloud EXCEPT ![BackupPath(Item(u))] = cloud[Item(u).hash]]
    PROVE  /\ cloud' \in [Names -> Hashes \cup {None}]
           /\ \A h \in Hashes : cloud'[h] = cloud[h]
           /\ \A h \in Hashes : cloud'[Old(h)] = cloud[Old(h)] \/
                (h = Item(u).hash /\ cloud'[Old(h)] = cloud[h])
           /\ ~Item(u).spent => cloud'[Old(Item(u).hash)] = cloud[Item(u).hash]
<1> DEFINE g == Item(u).hash
           b == BackupPath(Item(u))
<1>1. g \in Hashes
  BY AtWork DEF AtLoop
<1>2. b \in {NoneKey, Old(g)} /\ b \in Names /\ b \notin Hashes
  BY <1>1, DistinctNames DEF BackupPath
<1>3. cloud \in [Names -> Hashes \cup {None}] /\ cloud[g] \in Hashes \cup {None}
  BY <1>1, DistinctNames DEF IInv, TypeOK
<1>4. ~Item(u).spent => b = Old(g)
  BY DEF BackupPath
<1> HIDE DEF g, b
<1>5. cloud' = [cloud EXCEPT ![b] = cloud[g]]
  BY DEF g, b
<1>6. cloud' \in [Names -> Hashes \cup {None}] /\ \A h \in Hashes : cloud'[h] = cloud[h]
  BY <1>2, <1>3, <1>5, DistinctNames
<1>7. \A h \in Hashes : cloud'[Old(h)] = cloud[Old(h)] \/ (h = g /\ cloud'[Old(h)] = cloud[h])
  <2>1. ASSUME NEW h \in Hashes
        PROVE  cloud'[Old(h)] = cloud[Old(h)] \/ (h = g /\ cloud'[Old(h)] = cloud[h])
    <3>1. CASE b = Old(h)
      <4>1. g = h
        BY <1>1, <1>2, <3>1, DistinctNames
      <4> QED
        BY <4>1, <3>1, <1>2, <1>3, <1>5
    <3>2. CASE b # Old(h)
      BY <3>2, <1>2, <1>3, <1>5, DistinctNames
    <3> QED
      BY <3>1, <3>2
  <2> QED
    BY <2>1
<1>8. ~Item(u).spent => cloud'[Old(g)] = cloud[g]
  BY <1>2, <1>3, <1>4, <1>5
<1> QED
  BY <1>6, <1>7, <1>8 DEF g

LEMMA CopyKeeps == ASSUME IInv, NEW u \in Updaters, Copy(u) PROVE IInv'
<1> DEFINE p == up[u]
           n == p.at
           item == [p.pending[n] EXCEPT !.backed = TRUE]
           items == [p.pending EXCEPT ![n] = item]
           q == [[p EXCEPT !.pc = "insert"] EXCEPT !.pending = items]
<1>1. p \in BaseConfigs /\ p.pending \in Seq(Uploads) /\ n \in DOMAIN p.pending /\ Busy(u)
      /\ p.pending[n] \in Uploads /\ Item(u) = p.pending[n]
      /\ p.pc = "copy" /\ UNCHANGED <<disk, events, doubt, unkept>>
  BY AtWork DEF Copy, Item, AtLoop
<1>2. CASE StartRollback(u) /\ UNCHANGED cloud
  BY <1>1, <1>2, StartRollbackKeeps DEF IInv, TypeOK, AtLoop
<1>3. CASE /\ cloud[Item(u).hash] # None
           /\ cloud' = [cloud EXCEPT ![BackupPath(Item(u))] = cloud[Item(u).hash]]
           /\ up' = [up EXCEPT ![u].pc = "insert", ![u].pending[up[u].at].backed = TRUE]
  <2>1. /\ cloud' \in [Names -> Hashes \cup {None}]
        /\ \A h \in Hashes : cloud'[h] = cloud[h]
        /\ \A h \in Hashes : cloud'[Old(h)] = cloud[Old(h)] \/
             (h = Item(u).hash /\ cloud'[Old(h)] = cloud[h])
        /\ ~Item(u).spent => cloud'[Old(Item(u).hash)] = cloud[Item(u).hash]
    BY <1>1, <1>3, BackupIsApart
  <2>2. item \in Uploads /\ item.hash = p.pending[n].hash /\ item.backed
        /\ item.updated = p.pending[n].updated /\ item.spent = p.pending[n].spent
        /\ item.unsure = p.pending[n].unsure
    BY <1>1 DEF Uploads
  <2>3. up' = [up EXCEPT ![u] = q]
    BY <1>1, <1>3 DEF IInv, TypeOK, BaseConfigs
  <2> HIDE DEF item
  <2>4. /\ items \in Seq(Uploads) /\ Len(items) = Len(p.pending) /\ DOMAIN items = DOMAIN p.pending
        /\ \A i \in DOMAIN p.pending : items[i] = (IF i = n THEN item ELSE p.pending[i])
        /\ \A i \in DOMAIN p.pending : items[i].hash = p.pending[i].hash
    BY <1>1, <2>2, Amended
  <2> HIDE DEF items
  <2>5. q \in BaseConfigs /\ q.pc = "insert" /\ q.at = n /\ q.pending = items /\ q.data = p.data
        /\ q.before = p.before
    BY <1>1, <2>4 DEF BaseConfigs
  <2> HIDE DEF q
  <2>6. up'[u] = q /\ OthersSame(u) /\ TypeOK'
    <3>1. /\ disk' \in Config \cup {Torn} /\ doubt' \subseteq Hashes /\ unkept' \subseteq Hashes
          /\ q.at <= Len(q.pending)
          /\ events' \in 0..MaxEvents
      BY <1>1, <2>4, <2>5 DEF IInv, TypeOK
    <3> QED
      BY <3>1, <2>1, <2>3, <2>5, Moves DEF IInv
  <2>7. SameUploads(u)
    BY <2>4, <2>5, <2>6 DEF SameUploads
  <2>8. \A i \in DOMAIN p.pending : p.pending[i].hash \notin doubt =>
             Uploaded(u, i) /\ ~p.pending[i].spent
    BY <1>1 DEF IInv, Progress, ProgressOf
  <2>9. ProgressOf(u)'
    <3>1. ASSUME NEW i \in DOMAIN p.pending, p.pending[i].hash \notin doubt PROVE Uploaded(u, i)'
      <4>1. cloud'[p.pending[i].hash] = cloud[p.pending[i].hash] /\ unkept' = unkept
        BY <1>1, <2>1, AtWork
      <4> QED
        BY <4>1, <3>1, <1>1, <2>2, <2>4, <2>5, <2>6, <2>8, SMTT(60) DEF Uploaded
    <3>2. p.before \in [Hashes -> Hashes \cup {None}] /\ p.at > 0
      BY <1>1 DEF IInv, Progress, ProgressOf
    <3> QED
      BY <3>1, <3>2, <1>1, <2>2, <2>4, <2>5, <2>6, <2>8 DEF ProgressOf, AtLoop
  <2>10. RestoresOf(u)'
    <3> PICK g \in Hashes : g = p.pending[n].hash
      BY <1>1, AtWork
    <3>1. ASSUME g \in Of(p.pending) \ doubt PROVE Excused(u, g)' \/ Restorable(u, g)'
      <4>1. Excused(u, g) \/ Restorable(u, g)
        BY <1>1, <3>1 DEF IInv, Restores, RestoresOf
      <4>2. CASE Excused(u, g)
        <5>1. \A i \in DOMAIN p.pending :
                 /\ items[i].unsure = p.pending[i].unsure /\ items[i].hash = p.pending[i].hash
                 /\ p.pending[i].backed => items[i].backed
          BY <2>2, <2>4
        <5>2. Unsure(u, g) => Unsure(u, g)'
          BY <5>1, <2>4, <2>5, <2>6 DEF Unsure
        <5>3. Overwritten(u, g) => Overwritten(u, g)'
          BY <5>1, <2>4, <2>5, <2>6 DEF Overwritten
        <5> QED
          BY <5>2, <5>3, <4>2 DEF Excused
      <4>3. CASE Restorable(u, g)
        <5> DEFINE its  == {i \in ToUndo(u) : p.pending[i].hash = g}
                   itsN == {i \in ToUndo(u)' : items[i].hash = g}
        <5>1. itsN = its \cup {n}
          BY <1>1, <2>2, <2>4, <2>5, <2>6, SMTT(60) DEF ToUndo, Done
        <5>2. \A i \in its : i \in DOMAIN p.pending /\ i < n
          BY <1>1, <2>8, <3>1 DEF ToUndo, Done, Uploaded
        <5>3. cloud[g] # None /\ cloud'[g] = cloud[g]
          BY <1>1, <1>3, <2>1, AtWork
        <5>4. n \in Nat /\ n \notin its /\ items[n].backed
              /\ \A i \in its : items[i].backed = p.pending[i].backed
          BY <1>1, <2>2, <2>4, <5>2, SMTT(60)
        <5>5. \A i \in its : i \in Nat
          BY <1>1, <5>2
        <5>6. /\ up'[u].pending = items /\ up'[u].before = p.before
              /\ {i \in ToUndo(u)' : up'[u].pending[i].hash = g} = itsN
          BY <2>5, <2>6
        <5>7. /\ its = {} => cloud[g] = p.before[g]
              /\ its # {} /\ p.before[g] = None =>
                  \E f \in its : \A i \in its : f <= i /\ (i = f <=> ~p.pending[i].backed)
          BY <4>3 DEF Restorable
        <5>8. CASE its # {} /\ p.before[g] # None
          <6>1. Overwritten(u, g)
            BY <1>1, <3>1, <4>3, <5>8, CopiedAgain
          <6>2. \A i \in DOMAIN p.pending :
                   /\ items[i].hash = p.pending[i].hash
                   /\ p.pending[i].backed => items[i].backed
            BY <2>2, <2>4
          <6>3. Overwritten(u, g)'
            BY <6>1, <6>2, <2>4, <5>6 DEF Overwritten
          <6> QED
            BY <6>3 DEF Excused
        <5> HIDE DEF its, itsN
        <5>9. CASE its # {} /\ p.before[g] = None
          <6>1. PICK f \in its : \A i \in its : f <= i /\ (i = f <=> ~p.pending[i].backed)
            BY <5>7, <5>9
          <6>2. f \in itsN /\ \A i \in itsN : f <= i /\ (i = f <=> ~items[i].backed)
            <7>1. n # f /\ f < n
              BY <5>2, <5>4, <6>1
            <7>2. \A i \in its : f <= i /\ (i = f <=> ~items[i].backed)
              BY <5>4, <6>1
            <7>3. f <= n /\ (n = f <=> ~items[n].backed)
              BY <7>1, <5>4, <5>5, <6>1
            <7> QED
              BY <7>2, <7>3, <5>1, <6>1
          <6>3. \E k \in itsN : \A i \in itsN : k <= i /\ (i = k <=> ~up'[u].pending[i].backed)
            BY <6>2, <5>6
          <6>4. up'[u].before[g] = None /\ itsN # {} /\ cloud'[g] # None
            BY <6>2, <5>3, <5>6, <5>9
          <6> QED
            BY <5>6, <6>3, <6>4 DEF Restorable
        <5>10. CASE its = {}
          <6>1. itsN = {n} /\ items[n].backed /\ cloud[g] = p.before[g] /\ p.before[g] # None
            BY <5>1, <5>3, <5>4, <5>7, <5>10
          <6>2. ~Item(u).spent /\ Item(u).hash = g
            BY <1>1, <2>8, <3>1
          <6>3. cloud'[Old(g)] = p.before[g]
            BY <2>1, <6>1, <6>2
          <6>4. itsN # {} /\ \A i \in itsN : up'[u].pending[i].backed
            BY <6>1, <5>6
          <6> QED
            BY <5>6, <6>1, <6>3, <6>4 DEF Restorable
        <5> QED
          BY <5>8, <5>9, <5>10
      <4> QED
        BY <4>1, <4>2, <4>3
    <3>2. \A i \in DOMAIN p.pending : p.pending[i].hash # g => items[i] = p.pending[i]
      BY <2>4
    <3>3. \A i \in DOMAIN p.pending : p.pending[i].hash # g => (i \in ToUndo(u)' <=> i \in ToUndo(u))
      BY <3>2, <1>1, <2>4, <2>5, <2>6 DEF ToUndo
    <3>4. \A i \in DOMAIN p.pending : p.pending[i].hash # g =>
               /\ i \in ToUndo(u)' <=> i \in ToUndo(u)
               /\ up'[u].pending[i].backed = p.pending[i].backed
               /\ up'[u].pending[i].unsure = p.pending[i].unsure
      BY <3>2, <3>3, <2>5, <2>6
    <3> QED
      <4>1. Busy(u) /\ doubt' = doubt /\ up'[u].before = up[u].before
            /\ \A h \in Hashes \ {g} : Untouched(h)
        BY <1>1, <2>1, <2>5, <2>6 DEF Untouched
      <4> QED
        BY <3>1, <3>4, <4>1, <2>7, RestoresBut
  <2>11. ASSUME NEW h \in Hashes \ (doubt \cup unkept'), Named(h)
         PROVE
               /\ cloud'[h] \in {cloud[h], h} /\ cloud'[Old(h)] \in {cloud[Old(h)], h}
               /\ LeavesIt(u, h)'
    <3>1. cloud[h] = h /\ LeavesIt(u, h) /\ cloud'[Old(h)] \in {cloud[Old(h)], h}
      BY <1>1, <2>1, <2>11 DEF IInv, NamedStays
    <3>2. ASSUME NEW i \in DOMAIN p.pending, p.pending[i].hash = h
          PROVE  /\ items[i].updated => items[i].backed
                 /\ items[i].backed => cloud'[Old(h)] = h
      <4>1. CASE i = n
        <5>1. ~Item(u).spent /\ Item(u).hash = h
          BY <1>1, <2>8, <2>11, <3>2, <4>1
        <5> QED
          BY <5>1, <4>1, <2>1, <2>2, <2>4, <3>1
      <4>2. CASE i # n
        BY <4>2, <3>1, <3>2, <1>1, <2>4 DEF LeavesIt
      <4> QED
        BY <4>1, <4>2
    <3> QED
      BY <3>1, <3>2, <2>1, <2>4, <2>5, <2>6 DEF LeavesIt
  <2>12. \A i \in DOMAIN up'[u].pending : up'[u].pending[i].spent => up'[u].pending[i].backed
    BY <2>2, <2>4, <2>5, <2>6 DEF IInv, Read, ReadOf
  <2> QED
    <3>1. \A h \in Hashes : Untouched(h) \/ h \in Of(up[u].pending)
      BY <1>1, <2>1 DEF Untouched, Of
    <3> QED
      BY <3>1, <1>1, <2>1, <2>5, <2>6, <2>7, <2>9, <2>10, <2>11, <2>12, WorkKeeps
<1> QED
  BY <1>2, <1>3 DEF Copy

(* What is stored is under the hash of the upload, and nothing else changes.    *)
LEMMA StoredIsApart ==
    ASSUME IInv, NEW u \in Updaters, up[u].pc = "insert", NEW content \in Hashes, Stores(u, content)
    PROVE  /\ cloud' \in [Names -> Hashes \cup {None}]
           /\ cloud'[Item(u).hash] = content
           /\ \A h \in Hashes \ {Item(u).hash} : cloud'[h] = cloud[h]
           /\ \A h \in Hashes : cloud'[Old(h)] = cloud[Old(h)]
           /\ unkept \subseteq unkept' /\ unkept' \subseteq Hashes
           /\ Item(u).hash \notin unkept' => content = Item(u).hash
<1> DEFINE g == Item(u).hash
<1>1. g \in Hashes /\ g \in Names /\ cloud \in [Names -> Hashes \cup {None}]
  BY AtWork, DistinctNames DEF IInv, TypeOK, AtLoop
<1> HIDE DEF g
<1>2. cloud' = [cloud EXCEPT ![g] = content] /\ unkept' = unkept \cup ({g} \ {content})
  BY DEF Stores, g
<1>3. /\ cloud' \in [Names -> Hashes \cup {None}] /\ cloud'[g] = content
      /\ \A h \in Hashes \ {g} : cloud'[h] = cloud[h]
  BY <1>1, <1>2, DistinctNames
<1>4. \A h \in Hashes : cloud'[Old(h)] = cloud[Old(h)]
  BY <1>1, <1>2, DistinctNames
<1>5. unkept \subseteq unkept' /\ unkept' \subseteq Hashes /\ (g \notin unkept' => content = g)
  BY <1>1, <1>2 DEF IInv, TypeOK
<1> QED
  BY <1>3, <1>4, <1>5 DEF g

LEMMA InsertKeeps == ASSUME IInv, NEW u \in Updaters, Insert(u) PROVE IInv'
<1> DEFINE p == up[u]
           n == p.at
           item == [p.pending[n] EXCEPT !.updated = TRUE]
           items == [p.pending EXCEPT ![n] = item]
           more == n < Len(p.pending)
           there == IF more THEN "exists" ELSE "truncate"
           m == IF more THEN n + 1 ELSE n
           q == [[[p EXCEPT !.pc = there] EXCEPT !.at = m] EXCEPT !.pending = items]
<1>1. p \in BaseConfigs /\ p.pending \in Seq(Uploads) /\ n \in DOMAIN p.pending /\ Busy(u)
      /\ p.pending[n] \in Uploads /\ Item(u) = p.pending[n]
      /\ p.pc = "insert" /\ UNCHANGED <<disk, doubt>> /\ events' \in 0..MaxEvents
  <2>1. p.pc = "insert" /\ UNCHANGED <<disk, doubt>>
    BY DEF Insert
  <2>2. events' \in 0..MaxEvents
    BY DEF Insert, Event, IInv, TypeOK
  <2> QED
    BY <2>1, <2>2, AtWork DEF Item, AtLoop
<1> PICK g \in Hashes : g = p.pending[n].hash
  BY <1>1, AtWork
<1>2. /\ cloud' \in [Names -> Hashes \cup {None}]
      /\ cloud'[g] # None /\ (g \notin unkept' => cloud'[g] = g)
      /\ \A h \in Hashes \ {g} : cloud'[h] = cloud[h]
      /\ \A h \in Hashes : cloud'[Old(h)] = cloud[Old(h)]
      /\ unkept \subseteq unkept' /\ unkept' \subseteq Hashes
  <2>1. PICK content \in Hashes : Stores(u, content)
    BY <1>1 DEF Insert
  <2> QED
    BY <2>1, <1>1, StoredIsApart
<1>3. item \in Uploads /\ item.hash = p.pending[n].hash /\ item.updated
      /\ item.backed = p.pending[n].backed /\ item.spent = p.pending[n].spent
      /\ item.unsure = p.pending[n].unsure
  BY <1>1 DEF Uploads
<1>4. up' = [up EXCEPT ![u] = q]
  BY <1>1 DEF Insert, IInv, TypeOK, BaseConfigs
<1> HIDE DEF item
<1>5. /\ items \in Seq(Uploads) /\ Len(items) = Len(p.pending) /\ DOMAIN items = DOMAIN p.pending
      /\ \A i \in DOMAIN p.pending : items[i] = (IF i = n THEN item ELSE p.pending[i])
      /\ \A i \in DOMAIN p.pending : items[i].hash = p.pending[i].hash
  BY <1>1, <1>3, Amended
<1>6. n \in Nat /\ Len(p.pending) \in Nat /\ n <= Len(p.pending) /\ DOMAIN p.pending = 1..Len(p.pending)
  BY <1>1
<1> HIDE DEF items
<1>7. /\ q \in BaseConfigs /\ q.pending = items /\ q.data = p.data /\ q.before = p.before
      /\ IF more THEN q.pc = "exists" /\ q.at = n + 1 ELSE q.pc = "truncate" /\ q.at = n
  <2>1. there \in {"exists", "truncate"} /\ m \in Nat
    BY <1>6
  <2> HIDE DEF there, m
  <2>2. /\ q \in BaseConfigs /\ q.pending = items /\ q.data = p.data /\ q.before = p.before
        /\ q.pc = there /\ q.at = m
    BY <1>1, <1>5, <2>1 DEF BaseConfigs
  <2> QED
    BY <2>2 DEF there, m
<1> HIDE DEF q
<1>8. up'[u] = q /\ OthersSame(u) /\ TypeOK'
  <2>1. /\ disk' \in Config \cup {Torn} /\ doubt' \subseteq Hashes /\ unkept' \subseteq Hashes
        /\ q.at <= Len(q.pending)
        /\ events' \in 0..MaxEvents
    BY <1>1, <1>2, <1>5, <1>6, <1>7 DEF IInv, TypeOK
  <2> QED
    BY <2>1, <1>2, <1>4, <1>7, Moves DEF IInv
<1>9. SameUploads(u)
  BY <1>5, <1>7, <1>8 DEF SameUploads
<1>10. \A i \in DOMAIN p.pending : p.pending[i].hash \notin doubt =>
           Uploaded(u, i) /\ ~p.pending[i].spent
  BY <1>1 DEF IInv, Progress, ProgressOf
<1>11. ProgressOf(u)'
  <2>1. ASSUME NEW i \in DOMAIN p.pending, p.pending[i].hash \notin doubt PROVE Uploaded(u, i)'
    <3>1. p.pending[i].hash \in Hashes /\ i \in Nat
      BY <1>6, AtWork
    <3>2. CASE i = n
      BY <3>2, <1>2, <1>3, <1>5, <1>6, <1>7, <1>8, SMTT(60) DEF Uploaded
    <3>3. CASE i < n
      <4>1. /\ p.pending[i].updated
            /\ p.pending[i].hash \notin unkept => cloud[p.pending[i].hash] = p.pending[i].hash
        BY <3>3, <2>1, <1>10 DEF Uploaded
      <4>2. /\ items[i] = p.pending[i]
            /\ p.pending[i].hash \notin unkept' => cloud'[p.pending[i].hash] = p.pending[i].hash
        BY <4>1, <3>1, <3>3, <1>2, <1>5, <1>6
      <4> QED
        BY <4>1, <4>2, <3>1, <3>3, <1>6, <1>7, <1>8 DEF Uploaded
    <3>4. CASE i > n
      <4>1. ~p.pending[i].updated /\ ~p.pending[i].backed /\ more
        BY <3>1, <3>4, <2>1, <1>1, <1>6, <1>10 DEF Uploaded
      <4> QED
        BY <4>1, <3>1, <3>4, <1>5, <1>6, <1>7, <1>8 DEF Uploaded
    <3> QED
      BY <3>1, <3>2, <3>3, <3>4, <1>6
  <2>2. p.before \in [Hashes -> Hashes \cup {None}] /\ p.at > 0
    BY <1>1 DEF IInv, Progress, ProgressOf
  <2>3. \A i \in DOMAIN p.pending : p.pending[i].hash \notin doubt => ~items[i].spent
    BY <1>3, <1>5, <1>10
  <2>4. /\ up'[u].pending = items /\ up'[u].before = p.before /\ up'[u].at > 0
        /\ \A i \in DOMAIN items : items[i].hash = p.pending[i].hash
        /\ DOMAIN items = DOMAIN p.pending /\ doubt' = doubt
    BY <2>2, <1>1, <1>5, <1>6, <1>7, <1>8
  <2> QED
    BY <2>1, <2>2, <2>3, <2>4 DEF ProgressOf
<1>12. RestoresOf(u)'
  <2>1. ASSUME g \in Of(p.pending) \ doubt PROVE Excused(u, g)' \/ Restorable(u, g)'
    <3>1. Excused(u, g) \/ Restorable(u, g)
      BY <1>1, <2>1 DEF IInv, Restores, RestoresOf
    <3>2. Excused(u, g) => Excused(u, g)'
      <4>1. \A i \in DOMAIN p.pending :
               /\ items[i].unsure = p.pending[i].unsure /\ items[i].hash = p.pending[i].hash
               /\ items[i].backed = p.pending[i].backed
        BY <1>3, <1>5
      <4>2. Unsure(u, g) => Unsure(u, g)'
        BY <4>1, <1>5, <1>7, <1>8 DEF Unsure
      <4>3. Overwritten(u, g) => Overwritten(u, g)'
        BY <4>1, <1>5, <1>7, <1>8 DEF Overwritten
      <4> QED
        BY <4>2, <4>3 DEF Excused
    <3>3. CASE Restorable(u, g)
      <4> DEFINE its  == {i \in ToUndo(u) : p.pending[i].hash = g}
                 itsN == {i \in ToUndo(u)' : items[i].hash = g}
      <4>1. itsN = its \cup {n}
        BY <1>1, <1>3, <1>5, <1>7, <1>8, SMTT(60) DEF ToUndo, Done
      <4>2. up'[u].pending = items /\ up'[u].before = p.before
            /\ {i \in ToUndo(u)' : up'[u].pending[i].hash = g} = itsN
        BY <1>7, <1>8
      <4>3. \A i \in DOMAIN p.pending : items[i].backed = p.pending[i].backed
        BY <1>3, <1>5
      <4>4. \A i \in its : i \in DOMAIN p.pending
        BY DEF ToUndo
      <4>5. /\ its = {} => cloud[g] = p.before[g]
            /\ its # {} /\ p.before[g] = None =>
                /\ cloud[g] # None
                /\ \E f \in its : \A i \in its : f <= i /\ (i = f <=> ~p.pending[i].backed)
            /\ its # {} /\ p.before[g] # None =>
                cloud[Old(g)] = p.before[g] /\ \A i \in its : p.pending[i].backed
        BY <3>3 DEF Restorable
      <4>6. CASE p.pending[n].backed
        <5>1. n \in its
          BY <1>1, <4>6 DEF ToUndo, Done
        <5> HIDE DEF its, itsN
        <5>2. itsN = its /\ its # {}
          BY <4>1, <5>1
        <5>3. CASE p.before[g] = None
          <6>1. \E f \in its : \A i \in its : f <= i /\ (i = f <=> ~up'[u].pending[i].backed)
            BY <4>2, <4>3, <4>4, <4>5, <5>2, <5>3
          <6> QED
            BY <6>1, <4>2, <5>2, <5>3, <1>2 DEF Restorable
        <5>4. CASE p.before[g] # None
          <6>1. cloud'[Old(g)] = p.before[g] /\ \A i \in its : up'[u].pending[i].backed
            BY <4>2, <4>3, <4>4, <4>5, <5>2, <5>4, <1>2
          <6> QED
            BY <6>1, <4>2, <5>2, <5>4 DEF Restorable
        <5> QED
          BY <5>3, <5>4
      <4>7. CASE ~p.pending[n].backed
        <5>1. cloud[g] = None
          BY <1>1, <1>6, <1>10, <2>1, <4>7 DEF Uploaded
        <5>2. CASE its # {} /\ p.before[g] # None
          <6>1. Overwritten(u, g)
            BY <1>1, <2>1, <3>3, <4>7, <5>2, CopiedAgain
          <6> QED
            BY <6>1, <3>2 DEF Excused
        <5> HIDE DEF its, itsN
        <5>3. CASE its = {}
          <6>1. itsN = {n} /\ ~up'[u].pending[n].backed /\ p.before[g] = None
            BY <1>1, <4>1, <4>2, <4>3, <4>5, <4>7, <5>1, <5>3
          <6>2. \E f \in itsN : \A i \in itsN : f <= i /\ (i = f <=> ~up'[u].pending[i].backed)
            BY <6>1, <1>6
          <6> QED
            BY <6>1, <6>2, <4>2, <1>2, SMTT(60) DEF Restorable
        <5> QED
          BY <4>5, <5>1, <5>2, <5>3
      <4> QED
        BY <4>6, <4>7
    <3> QED
      BY <3>1, <3>2, <3>3
  <2>2. \A i \in DOMAIN p.pending : p.pending[i].hash # g => items[i] = p.pending[i]
    BY <1>5
  <2>3. \A i \in DOMAIN p.pending : p.pending[i].hash # g => (i \in ToUndo(u)' <=> i \in ToUndo(u))
    BY <2>2, <1>1, <1>5, <1>7, <1>8 DEF ToUndo
  <2>4. \A i \in DOMAIN p.pending : p.pending[i].hash # g =>
           /\ i \in ToUndo(u)' <=> i \in ToUndo(u)
           /\ up'[u].pending[i].backed = p.pending[i].backed
           /\ up'[u].pending[i].unsure = p.pending[i].unsure
    BY <2>2, <2>3, <1>7, <1>8
  <2>5. Busy(u) /\ doubt' = doubt /\ up'[u].before = up[u].before
        /\ \A h \in Hashes \ {g} : Untouched(h)
    BY <1>1, <1>2, <1>7, <1>8 DEF Untouched
  <2> QED
    BY <2>1, <2>4, <2>5, <1>9, RestoresBut
<1>13. ASSUME NEW h \in Hashes \ (doubt \cup unkept'), Named(h)
       PROVE
               /\ cloud'[h] \in {cloud[h], h} /\ cloud'[Old(h)] \in {cloud[Old(h)], h}
               /\ LeavesIt(u, h)'
  <2>1. cloud[h] = h /\ LeavesIt(u, h)
    BY <1>2, <1>13 DEF IInv, NamedStays
  <2>2. ASSUME h = g PROVE p.pending[n].backed
    <3>1. h \notin doubt /\ cloud[h] # None
      BY <2>1, <1>13
    <3>2. Uploaded(u, n)
      BY <2>2, <3>1, <1>1, <1>10
    <3>3. ~(n < n) /\ up[u] = p /\ p.at = n /\ p.pc = "insert"
      BY <1>1, <1>6
    <3>4. p.pending[n].backed \/ cloud[p.pending[n].hash] = None
      BY <3>2, <3>3 DEF Uploaded
    <3> QED
      BY <2>2, <3>1, <3>4
  <2>3. up'[u].pending = items
    BY <1>7, <1>8
  <2>4. ASSUME NEW i \in DOMAIN p.pending, p.pending[i].hash = h
        PROVE  /\ items[i].updated => items[i].backed
               /\ items[i].backed => cloud'[Old(h)] = h
    <3>1. CASE i = n
      BY <3>1, <2>1, <2>2, <2>4, <1>1, <1>2, <1>3, <1>5 DEF LeavesIt
    <3>2. CASE i # n
      BY <3>2, <2>1, <2>4, <1>1, <1>2, <1>5 DEF LeavesIt
    <3> QED
      BY <3>1, <3>2
  <2>5. cloud'[h] \in {cloud[h], h}
    BY <1>2, <1>13
  <2> QED
    BY <2>3, <2>4, <2>5, <1>2, <1>5 DEF LeavesIt
<1>14. \A h \in Hashes : Untouched(h) \/ h \in Of(up[u].pending)
  BY <1>1, <1>2 DEF Of, Untouched
<1>15. disk' \in {disk, Torn} /\ doubt' = doubt /\ up'[u].data = up[u].data
       /\ up'[u].pc \notin {"closed", "written"}
  BY <1>1, <1>7, <1>8
<1>16. \A i \in DOMAIN up'[u].pending : up'[u].pending[i].spent => up'[u].pending[i].backed
  BY <1>3, <1>5, <1>7, <1>8 DEF IInv, Read, ReadOf
<1> QED
  BY <1>1, <1>2, <1>8, <1>9, <1>11, <1>12, <1>13, <1>14, <1>15, <1>16, WorkKeeps

LEMMA TruncateKeeps == ASSUME IInv, NEW u \in Updaters, Truncate(u) PROVE IInv'
<1> DEFINE p == up[u]
           q == [p EXCEPT !.pc = "write"]
<1>1. p \in BaseConfigs /\ p.pending \in Seq(Uploads) /\ p.at \in DOMAIN p.pending /\ Busy(u)
      /\ p.pc = "truncate" /\ disk' = Torn /\ UNCHANGED <<cloud, events, doubt, unkept>>
  BY AtWork DEF Truncate, AtLoop
<1>3. q \in BaseConfigs /\ q.pc = "write" /\ q.at = p.at /\ q.pending = p.pending /\ q.data = p.data
      /\ q.before = p.before
  BY <1>1 DEF BaseConfigs
<1>4. up' = [up EXCEPT ![u] = q]
  BY DEF Truncate, Go, IInv, TypeOK
<1> HIDE DEF q
<1>5. up'[u] = q /\ OthersSame(u) /\ TypeOK'
  <2>1. /\ disk' \in Config \cup {Torn} /\ doubt' \subseteq Hashes /\ unkept' \subseteq Hashes
        /\ q.at <= Len(q.pending)
        /\ cloud' \in [Names -> Hashes \cup {None}] /\ events' \in 0..MaxEvents
    BY <1>1, <1>3 DEF IInv, TypeOK
  <2> QED
    BY <2>1, <1>3, <1>4, Moves DEF IInv
<1>6. SameUploads(u)
  BY <1>3, <1>5 DEF SameUploads
<1>7. ProgressOf(u)'
  BY <1>1, <1>3, <1>5 DEF IInv, Progress, ProgressOf, Busy, Uploaded, AtLoop
<1>8. RestoresOf(u)'
  <2>1. ToUndo(u)' = ToUndo(u)
    BY <1>1, <1>3, <1>5 DEF ToUndo
  <2> QED
    BY <2>1, <1>1, <1>3, <1>5, RestoresKept DEF Untouched
<1>9. \A h \in Hashes \ (doubt \cup unkept') : Named(h) =>
               /\ cloud'[h] \in {cloud[h], h} /\ cloud'[Old(h)] \in {cloud[Old(h)], h}
               /\ LeavesIt(u, h)'
  BY <1>1, <1>3, <1>5, LeavesItKept
<1>10. \A i \in DOMAIN up'[u].pending : up'[u].pending[i].spent => up'[u].pending[i].backed
  BY <1>3, <1>5 DEF IInv, Read, ReadOf
<1> QED
  BY <1>1, <1>3, <1>5, <1>6, <1>7, <1>8, <1>9, <1>10, WorkKeeps DEF Untouched

(* An upload may have been done though its command failed.                      *)
LEMMA FailsKeeps == ASSUME IInv, NEW u \in Updaters, Fails(u) PROVE IInv'
<1> DEFINE p == up[u]
           n == p.at
           item == [p.pending[n] EXCEPT !.unsure = TRUE]
           items == [p.pending EXCEPT ![n] = item]
           q == [[[p EXCEPT !.pc = "rollback"] EXCEPT !.at = Len(p.pending)]
                     EXCEPT !.pending = items]
<1>1. p \in BaseConfigs /\ p.pending \in Seq(Uploads) /\ n \in DOMAIN p.pending /\ Busy(u)
      /\ p.pending[n] \in Uploads /\ Item(u) = p.pending[n]
      /\ p.pc \in AtLoop /\ UNCHANGED <<disk, doubt>>
      /\ events' \in 0..MaxEvents
  <2>1. p.pc \in AtLoop /\ UNCHANGED <<disk, doubt>>
    BY DEF Fails, AtLoop
  <2>2. events' \in 0..MaxEvents
    BY DEF Fails, Event, IInv, TypeOK
  <2> QED
    BY <2>1, <2>2, AtWork DEF Item
<1>2. CASE /\ StartRollback(u)
           /\ unkept' = unkept \cup IF up[u].pc = "written" THEN Of(up[u].pending) ELSE {}
           /\ UNCHANGED cloud
  <2>1. Of(up[u].pending) \subseteq Hashes
    BY AtWork DEF Of
  <2>2. /\ unkept \subseteq unkept' /\ unkept' \subseteq Hashes
        /\ up[u].pc = "written" => Of(up[u].pending) \subseteq unkept'
    BY <2>1, <1>2 DEF IInv, TypeOK
  <2> QED
    BY <2>2, <1>1, <1>2, StartRollbackKeeps DEF IInv, TypeOK
<1>3. CASE /\ p.pc = "copy" /\ cloud[Item(u).hash] # None
           /\ cloud' = [cloud EXCEPT ![BackupPath(Item(u))] = cloud[Item(u).hash]]
           /\ StartRollback(u) /\ UNCHANGED unkept
  <2>1. /\ cloud' \in [Names -> Hashes \cup {None}]
        /\ \A h \in Hashes : cloud'[h] = cloud[h]
        /\ \A h \in Hashes : cloud'[Old(h)] = cloud[Old(h)] \/
             (h = Item(u).hash /\ cloud'[Old(h)] = cloud[h])
    BY <1>1, <1>3, BackupIsApart
  <2> QED
    BY <2>1, <1>1, <1>3, StartRollbackKeeps DEF IInv, TypeOK
<1>4. CASE /\ p.pc = "insert"
           /\ \E content \in Hashes : Stores(u, content)
           /\ up' = [up EXCEPT ![u].pc = "rollback", ![u].at = Len(up[u].pending),
                               ![u].pending[up[u].at].unsure = TRUE]
  <2> PICK g \in Hashes : g = p.pending[n].hash
    BY <1>1, AtWork
  <2>1. /\ cloud' \in [Names -> Hashes \cup {None}]
        /\ g \notin unkept' => cloud'[g] = g
        /\ \A h \in Hashes \ {g} : cloud'[h] = cloud[h]
        /\ \A h \in Hashes : cloud'[Old(h)] = cloud[Old(h)]
        /\ unkept \subseteq unkept' /\ unkept' \subseteq Hashes
    <3>1. PICK content \in Hashes : Stores(u, content)
      BY <1>4
    <3> QED
      BY <3>1, <1>1, <1>4, StoredIsApart
  <2>2. item \in Uploads /\ item.hash = p.pending[n].hash /\ item.unsure
        /\ item.backed = p.pending[n].backed /\ item.spent = p.pending[n].spent
        /\ item.updated = p.pending[n].updated
    BY <1>1 DEF Uploads
  <2>3. up' = [up EXCEPT ![u] = q]
    BY <1>1, <1>4 DEF IInv, TypeOK, BaseConfigs
  <2> HIDE DEF item
  <2>4. /\ items \in Seq(Uploads) /\ Len(items) = Len(p.pending) /\ DOMAIN items = DOMAIN p.pending
        /\ \A i \in DOMAIN p.pending : items[i] = (IF i = n THEN item ELSE p.pending[i])
        /\ \A i \in DOMAIN p.pending : items[i].hash = p.pending[i].hash
    BY <1>1, <2>2, Amended
  <2> HIDE DEF items
  <2>5. q \in BaseConfigs /\ q.pc = "rollback" /\ q.at = Len(p.pending) /\ q.pending = items
        /\ q.data = p.data /\ q.before = p.before
    <3>1. Len(p.pending) \in Nat
      BY <1>1
    <3> QED
      BY <1>1, <2>4, <3>1 DEF BaseConfigs
  <2> HIDE DEF q
  <2>6. up'[u] = q /\ OthersSame(u) /\ TypeOK'
    <3>1. /\ disk' \in Config \cup {Torn} /\ doubt' \subseteq Hashes /\ unkept' \subseteq Hashes
          /\ q.at <= Len(q.pending)
      BY <1>1, <2>1, <2>4, <2>5 DEF IInv, TypeOK
    <3> QED
      BY <3>1, <1>1, <2>1, <2>3, <2>5, Moves DEF IInv
  <2>7. SameUploads(u)
    BY <2>4, <2>5, <2>6 DEF SameUploads
  <2>8. \A i \in DOMAIN p.pending :
           /\ items[i].backed = p.pending[i].backed /\ items[i].updated = p.pending[i].updated
           /\ items[i].spent = p.pending[i].spent
    BY <2>2, <2>4
  <2>9. ProgressOf(u)'
    <3>1. /\ p.before \in [Hashes -> Hashes \cup {None}]
          /\ \A i \in DOMAIN p.pending : p.pending[i].hash \notin doubt => ~items[i].spent
      BY <1>1, <1>4, <2>8 DEF IInv, Progress, ProgressOf
    <3> QED
      BY <3>1, <1>1, <2>4, <2>5, <2>6 DEF ProgressOf, AtLoop
  <2>10. RestoresOf(u)'
    <3>1. ASSUME g \in Of(p.pending) PROVE Excused(u, g)'
      BY <1>1, <2>2, <2>4, <2>5, <2>6 DEF Excused, Unsure
    <3>2. \A i \in DOMAIN p.pending : i \in ToUndo(u)' <=> i \in ToUndo(u)
      BY <1>1, <1>4, <2>4, <2>5, <2>6, <2>8, SMTT(60) DEF ToUndo, Done
    <3>3. \A i \in DOMAIN p.pending : p.pending[i].hash # g =>
             /\ i \in ToUndo(u)' <=> i \in ToUndo(u)
             /\ up'[u].pending[i].backed = p.pending[i].backed
             /\ up'[u].pending[i].unsure = p.pending[i].unsure
      BY <3>2, <2>4, <2>5, <2>6
    <3>4. Busy(u) /\ doubt' = doubt /\ up'[u].before = up[u].before
          /\ \A h \in Hashes \ {g} : Untouched(h)
      BY <1>1, <2>1, <2>5, <2>6 DEF Untouched
    <3> QED
      BY <3>1, <3>3, <3>4, <2>7, RestoresBut, ZenonT(40)
  <2>11. ASSUME NEW h \in Hashes \ (doubt \cup unkept'), Named(h)
         PROVE
               /\ cloud'[h] \in {cloud[h], h} /\ cloud'[Old(h)] \in {cloud[Old(h)], h}
               /\ LeavesIt(u, h)'
    <3>1. cloud[h] = h /\ LeavesIt(u, h)
      BY <2>1, <2>11 DEF IInv, NamedStays
    <3>2. ASSUME NEW i \in DOMAIN p.pending, p.pending[i].hash = h
          PROVE  /\ items[i].updated => items[i].backed
                 /\ items[i].backed => cloud'[Old(h)] = h
      BY <3>1, <3>2, <1>4, <2>1, <2>8 DEF LeavesIt
    <3>3. LeavesIt(u, h)'
      BY <3>2, <2>4, <2>5, <2>6 DEF LeavesIt
    <3> QED
      BY <3>1, <3>3, <2>1, <2>11
  <2>12. \A h \in Hashes : Untouched(h) \/ h \in Of(up[u].pending)
    BY <1>1, <2>1 DEF Of, Untouched
  <2>13. \A i \in DOMAIN up'[u].pending : up'[u].pending[i].spent => up'[u].pending[i].backed
    BY <2>4, <2>5, <2>6, <2>8 DEF IInv, Read, ReadOf
  <2> QED
    BY <1>1, <2>1, <2>5, <2>6, <2>7, <2>9, <2>10, <2>11, <2>12, <2>13, WorkKeeps
<1> QED
  BY <1>2, <1>3, <1>4 DEF Fails

--------------------------------------------------------------------------------
(* The rollback.                                                                *)

LEMMA RaiseKeeps ==
    ASSUME IInv, NEW u \in Updaters, RaiseToCaller(u), up[u].pc = "rollback",
           UNCHANGED <<disk, cloud, doubt, unkept>>, events' \in 0..MaxEvents
    PROVE  IInv'
<1> DEFINE p == up[u]
           q == [[[p EXCEPT !.pc = "ready"] EXCEPT !.at = 0] EXCEPT !.before = <<>>]
<1>1. p \in BaseConfigs /\ p.pending \in Seq(Uploads) /\ Busy(u)
  BY AtWork DEF Busy
<1>3. q \in BaseConfigs /\ q.pc = "ready" /\ q.at = 0 /\ q.pending = p.pending /\ q.data = p.data
  BY <1>1 DEF BaseConfigs
<1>4. up' = [up EXCEPT ![u] = q]
  BY DEF RaiseToCaller, IInv, TypeOK
<1> HIDE DEF q
<1>5. up'[u] = q /\ OthersSame(u) /\ TypeOK'
  <2>1. /\ disk' \in Config \cup {Torn} /\ doubt' \subseteq Hashes /\ unkept' \subseteq Hashes
        /\ q.at <= Len(q.pending)
        /\ cloud' \in [Names -> Hashes \cup {None}]
    BY <1>1, <1>3 DEF IInv, TypeOK
  <2> QED
    BY <2>1, <1>3, <1>4, Moves DEF IInv
<1>6. SameUploads(u)
  BY <1>3, <1>5 DEF SameUploads
<1>7. ProgressOf(u)' /\ RestoresOf(u)'
  BY <1>3, <1>5 DEF ProgressOf, RestoresOf, Busy, AtLoop
<1>8. \A h \in Hashes \ (doubt \cup unkept') : Named(h) =>
               /\ cloud'[h] \in {cloud[h], h} /\ cloud'[Old(h)] \in {cloud[Old(h)], h}
               /\ LeavesIt(u, h)'
  BY <1>1, <1>3, <1>5, LeavesItKept
<1>9. \A i \in DOMAIN up'[u].pending : up'[u].pending[i].spent => up'[u].pending[i].backed
  BY <1>3, <1>5 DEF IInv, Read, ReadOf
<1> QED
  BY <1>1, <1>3, <1>5, <1>6, <1>7, <1>8, <1>9, WorkKeeps DEF Untouched

(* A version not in doubt gets its own backup back, or is deleted.              *)
LEMMA RollbackKeeps == ASSUME IInv, NEW u \in Updaters, Rollback(u) PROVE IInv'
<1> DEFINE p == up[u]
<1> PICK n, old : n = p.at /\ old = p.pending[n]
  OBVIOUS
<1> DEFINE next == [up EXCEPT ![u].at = @ - 1,
                              ![u].pending[n] = [old EXCEPT !.updated = FALSE,
                                                            !.spent = old.spent \/ old.backed]]
<1>1. p \in BaseConfigs /\ p.pending \in Seq(Uploads) /\ n \in DOMAIN p.pending /\ Busy(u)
      /\ old \in Uploads /\ n \in Nat \ {0} /\ DOMAIN p.pending = 1..Len(p.pending)
      /\ p.pc = "rollback" /\ UNCHANGED <<disk, events, doubt, unkept>>
  <2>1. p.pc = "rollback" /\ n > 0 /\ UNCHANGED <<disk, events, doubt, unkept>>
    BY DEF Rollback
  <2> QED
    BY <2>1, AtWork DEF Busy
<1> PICK g \in Hashes : g = old.hash
  BY <1>1, AtWork
<1>2. CASE RaiseToCaller(u) /\ UNCHANGED cloud
  BY <1>1, <1>2, RaiseKeeps DEF IInv, TypeOK
<1>3. ASSUME up' = next,
             \/ ~old.backed /\ ~old.updated /\ UNCHANGED cloud
             \/ /\ old.backed \/ old.updated
                /\ cloud[Source(old)] # None
                /\ cloud' = [cloud EXCEPT ![old.hash] = Restored(old)]
      PROVE  IInv'
  <2> PICK m \in Nat : m = n - 1
    BY <1>1
  <2> PICK spent \in BOOLEAN : spent = (old.spent \/ old.backed)
    OBVIOUS
  <2> DEFINE item == [[old EXCEPT !.updated = FALSE] EXCEPT !.spent = spent]
             items == [p.pending EXCEPT ![n] = item]
             q == [[p EXCEPT !.at = m] EXCEPT !.pending = items]
  <2>1. /\ cloud' \in [Names -> Hashes \cup {None}]
        /\ \A h \in Hashes \ {g} : cloud'[h] = cloud[h]
        /\ \A h \in Hashes : cloud'[Old(h)] = cloud[Old(h)]
        /\ ~Done(old) => cloud'[g] = cloud[g]
        /\ Done(old) /\ ~old.backed => cloud'[g] = None
        /\ old.backed /\ g \notin doubt => cloud'[g] = cloud[Old(g)] /\ cloud'[g] # None
    <3>1. CASE ~old.backed /\ ~old.updated /\ UNCHANGED cloud
      BY <3>1, <1>1 DEF IInv, TypeOK, Done
    <3>2. CASE /\ old.backed \/ old.updated
               /\ cloud[Source(old)] # None
               /\ cloud' = [cloud EXCEPT ![old.hash] = Restored(old)]
      <4>1. cloud \in [Names -> Hashes \cup {None}] /\ g \in Names /\ BackupPath(old) \in Names
        BY <1>1, DistinctNames DEF IInv, TypeOK, BackupPath
      <4>2. Restored(old) \in Hashes \cup {None}
        BY <4>1 DEF Restored
      <4>3. /\ cloud' \in [Names -> Hashes \cup {None}] /\ cloud'[g] = Restored(old)
            /\ \A h \in Hashes \ {g} : cloud'[h] = cloud[h]
            /\ \A h \in Hashes : cloud'[Old(h)] = cloud[Old(h)]
        <5>1. cloud' = [cloud EXCEPT ![g] = Restored(old)]
          BY <3>2
        <5> QED
          BY <5>1, <4>1, <4>2, DistinctNames
      <4>4. ASSUME g \notin doubt, old.backed
            PROVE  Restored(old) = cloud[Old(g)] /\ Restored(old) # None
        <5>1. ~old.spent
          BY <1>1, <4>4 DEF IInv, Progress, ProgressOf
        <5>2. BackupPath(old) = Old(g)
          BY <5>1 DEF BackupPath
        <5> QED
          BY <5>2, <4>4, <3>2 DEF Restored, Source
      <4>5. Done(old) /\ (~old.backed => Restored(old) = None)
        BY <3>2 DEF Done, Restored
      <4> QED
        BY <4>3, <4>4, <4>5
    <3> QED
      BY <1>3, <3>1, <3>2
  <2>2. item \in Uploads /\ item.hash = old.hash /\ ~item.updated
        /\ item.backed = old.backed /\ item.unsure = old.unsure /\ item.spent = spent
    BY <1>1 DEF Uploads
  <2>3. up' = [up EXCEPT ![u] = q]
    <3>1. up' = [up EXCEPT ![u].at = m, ![u].pending[n] = item]
      BY <1>3
    <3> QED
      BY <3>1, <1>1 DEF IInv, TypeOK, BaseConfigs
  <2> HIDE DEF item
  <2>4. /\ items \in Seq(Uploads) /\ Len(items) = Len(p.pending) /\ DOMAIN items = DOMAIN p.pending
        /\ \A i \in DOMAIN p.pending : items[i] = (IF i = n THEN item ELSE p.pending[i])
        /\ \A i \in DOMAIN p.pending : items[i].hash = p.pending[i].hash
    BY <1>1, <2>2, Amended, SMTT(60)
  <2> HIDE DEF items
  <2>5. q \in BaseConfigs /\ q.pc = "rollback" /\ q.at = m /\ q.pending = items
        /\ q.data = p.data /\ q.before = p.before
    BY <1>1, <2>4 DEF BaseConfigs
  <2> HIDE DEF q
  <2>6. up'[u] = q /\ OthersSame(u) /\ TypeOK'
    <3>1. /\ disk' \in Config \cup {Torn} /\ doubt' \subseteq Hashes /\ unkept' \subseteq Hashes
          /\ q.at <= Len(q.pending)
          /\ events' \in 0..MaxEvents
      BY <1>1, <2>4, <2>5 DEF IInv, TypeOK
    <3> QED
      BY <3>1, <2>1, <2>3, <2>5, Moves DEF IInv
  <2>7. SameUploads(u) /\ up'[u].pending = items /\ up'[u].before = p.before
    BY <2>4, <2>5, <2>6 DEF SameUploads
  <2>8. \A i \in DOMAIN p.pending :
           items[i].backed = p.pending[i].backed /\ items[i].unsure = p.pending[i].unsure
    BY <2>2, <2>4
  <2>9. ProgressOf(u)'
    <3>1. /\ p.before \in [Hashes -> Hashes \cup {None}]
          /\ \A i \in DOMAIN p.pending : p.pending[i].hash \notin doubt /\ p.pending[i].spent => i > n
      BY <1>1 DEF IInv, Progress, ProgressOf
    <3>2. ASSUME NEW i \in DOMAIN p.pending, p.pending[i].hash \notin doubt, items[i].spent
          PROVE  i > m
      BY <1>1, <2>4, <3>1, <3>2
    <3> QED
      BY <3>1, <3>2, <1>1, <2>4, <2>5, <2>6 DEF ProgressOf, AtLoop
  <2>10. RestoresOf(u)'
    <3>1. ASSUME g \in Of(p.pending) \ doubt PROVE Excused(u, g)' \/ Restorable(u, g)'
      <4>1. Excused(u, g) \/ Restorable(u, g)
        BY <1>1, <3>1 DEF IInv, Restores, RestoresOf
      <4>2. CASE Excused(u, g)
        <5>1. Unsure(u, g) => Unsure(u, g)'
          BY <2>4, <2>7, <2>8 DEF Unsure
        <5>2. Overwritten(u, g) => Overwritten(u, g)'
          BY <2>4, <2>7, <2>8 DEF Overwritten
        <5> QED
          BY <5>1, <5>2, <4>2 DEF Excused
      <4>3. CASE Restorable(u, g)
        <5> DEFINE its  == {i \in ToUndo(u) : p.pending[i].hash = g}
                   itsN == {i \in ToUndo(u)' : items[i].hash = g}
        <5>1. itsN = its \ {n}
          <6>1. \A i \in DOMAIN p.pending : i <= m <=> i <= n /\ i # n
            BY <1>1
          <6>2. ToUndo(u)' = {i \in DOMAIN items : Done(items[i]) /\ i <= m}
            BY <2>5, <2>6 DEF ToUndo
          <6>3. ToUndo(u) = {i \in DOMAIN p.pending : Done(p.pending[i]) /\ i <= n}
            BY <1>1 DEF ToUndo
          <6> QED
            BY <6>1, <6>2, <6>3, <2>4
        <5>2. {i \in ToUndo(u)' : up'[u].pending[i].hash = g} = itsN
          BY <2>7
        <5>3. \A i \in its : i \in DOMAIN p.pending /\ i \in Nat /\ i <= n
          BY <1>1 DEF ToUndo
        <5>4. n \in its <=> Done(old)
          BY <1>1 DEF ToUndo
        <5>5. /\ its = {} => cloud[g] = p.before[g]
              /\ its # {} /\ p.before[g] = None =>
                  /\ cloud[g] # None
                  /\ \E f \in its : \A i \in its : f <= i /\ (i = f <=> ~p.pending[i].backed)
              /\ its # {} /\ p.before[g] # None =>
                  cloud[Old(g)] = p.before[g] /\ \A i \in its : p.pending[i].backed
          BY <4>3 DEF Restorable
        <5> HIDE DEF its, itsN
        <5>6. \A i \in its : up'[u].pending[i].backed = p.pending[i].backed
          BY <5>3, <2>7, <2>8
        <5>7. CASE ~Done(old)
          <6>1. itsN = its /\ Untouched(g)
            BY <5>1, <5>4, <5>7, <2>1 DEF Untouched
          <6>2. CASE its = {}
            BY <6>1, <6>2, <5>2, <5>5, <2>7 DEF Restorable, Untouched
          <6>3. CASE its # {} /\ p.before[g] = None
            <7>1. \E f \in itsN : \A i \in itsN : f <= i /\ (i = f <=> ~up'[u].pending[i].backed)
              BY <5>5, <5>6, <6>1, <6>3, SMTT(60)
            <7>2. cloud'[g] # None /\ up'[u].before[g] = None /\ itsN # {}
              BY <5>5, <6>1, <6>3, <2>7 DEF Untouched
            <7> QED
              BY <7>1, <7>2, <5>2 DEF Restorable
          <6>4. CASE its # {} /\ p.before[g] # None
            <7>1. \A i \in itsN : up'[u].pending[i].backed
              BY <5>5, <5>6, <6>1, <6>4
            <7>2. cloud'[Old(g)] = p.before[g] /\ itsN # {}
              BY <5>5, <6>1, <6>4 DEF Untouched
            <7> QED
              BY <7>1, <7>2, <6>4, <5>2, <2>7 DEF Restorable
          <6> QED
            BY <6>2, <6>3, <6>4
        <5>8. CASE Done(old) /\ old.backed
          <6>1. n \in its /\ cloud'[g] = cloud[Old(g)] /\ cloud'[g] # None
            BY <5>4, <5>8, <2>1, <3>1
          <6>2. CASE p.before[g] = None
            <7>1. PICK f \in its : \A i \in its : f <= i /\ (i = f <=> ~p.pending[i].backed)
              BY <5>5, <6>1, <6>2
            <7>2. f # n
              BY <5>8, <6>1, <7>1
            <7>3. f \in itsN /\ \A i \in itsN : f <= i /\ (i = f <=> ~up'[u].pending[i].backed)
              BY <5>1, <5>6, <7>1, <7>2
            <7> QED
              BY <7>3, <6>1, <6>2, <5>2, <2>7 DEF Restorable
          <6>3. CASE p.before[g] # None
            <7>1. cloud[Old(g)] = p.before[g] /\ \A i \in its : p.pending[i].backed
              BY <5>5, <6>1, <6>3
            <7>2. /\ cloud'[g] = p.before[g] /\ cloud'[Old(g)] = p.before[g]
                  /\ \A i \in itsN : up'[u].pending[i].backed
              BY <7>1, <6>1, <5>1, <5>6, <2>1
            <7> QED
              BY <7>2, <6>3, <5>2, <2>7 DEF Restorable
          <6> QED
            BY <6>2, <6>3
        <5>9. CASE Done(old) /\ ~old.backed
          <6>1. n \in its /\ cloud'[g] = None
            BY <5>4, <5>9, <2>1
          <6>2. p.before[g] = None
            BY <5>5, <5>9, <6>1
          <6>3. PICK f \in its : \A i \in its : f <= i /\ (i = f <=> ~p.pending[i].backed)
            BY <5>5, <6>1, <6>2
          <6>4. f = n
            BY <5>9, <6>1, <6>3
          <6>5. itsN = {}
            <7>1. ASSUME NEW i \in itsN PROVE FALSE
              BY <7>1, <5>1, <5>3, <6>3, <6>4
            <7> QED
              BY <7>1
          <6> QED
            BY <6>1, <6>2, <6>5, <5>2, <2>7 DEF Restorable
        <5> QED
          BY <5>7, <5>8, <5>9
      <4> QED
        BY <4>1, <4>2, <4>3
    <3>2. \A i \in DOMAIN p.pending : p.pending[i].hash # g => items[i] = p.pending[i]
      BY <2>4
    <3>3. \A i \in DOMAIN p.pending : p.pending[i].hash # g => (i \in ToUndo(u)' <=> i \in ToUndo(u))
      BY <3>2, <1>1, <2>4, <2>5, <2>6, SMTT(60) DEF ToUndo
    <3>4. \A i \in DOMAIN p.pending : p.pending[i].hash # g =>
             /\ i \in ToUndo(u)' <=> i \in ToUndo(u)
             /\ up'[u].pending[i].backed = p.pending[i].backed
             /\ up'[u].pending[i].unsure = p.pending[i].unsure
      BY <2>7, <2>8, <3>3
    <3>5. Busy(u) /\ doubt' = doubt /\ up'[u].before = up[u].before
          /\ \A h \in Hashes \ {g} : Untouched(h)
      BY <1>1, <2>1, <2>7 DEF Untouched
    <3> QED
      BY <3>1, <3>4, <3>5, <2>7, RestoresBut
  <2>11. ASSUME NEW h \in Hashes \ (doubt \cup unkept'), Named(h)
         PROVE
               /\ cloud'[h] \in {cloud[h], h} /\ cloud'[Old(h)] \in {cloud[Old(h)], h}
               /\ LeavesIt(u, h)'
    <3>1. cloud[h] = h /\ LeavesIt(u, h)
      BY <1>1, <2>11 DEF IInv, NamedStays
    <3>2. h = g /\ Done(old) => old.backed /\ cloud[Old(g)] = h
      BY <3>1, <1>1 DEF Done, LeavesIt
    <3>3. cloud'[h] \in {cloud[h], h}
      BY <3>2, <2>1, <2>11
    <3>4. ASSUME NEW i \in DOMAIN p.pending, p.pending[i].hash = h
          PROVE  /\ items[i].updated => items[i].backed
                 /\ items[i].backed => cloud'[Old(h)] = h
      BY <3>1, <3>4, <1>1, <2>1, <2>2, <2>4, <2>8, <2>11 DEF LeavesIt
    <3> QED
      BY <3>3, <3>4, <2>1, <2>4, <2>7 DEF LeavesIt
  <2>12. \A h \in Hashes : Untouched(h) \/ h \in Of(up[u].pending)
    BY <1>1, <2>1 DEF Of, Untouched
  <2>13. disk' \in {disk, Torn} /\ doubt' = doubt /\ unkept' = unkept /\ up'[u].data = up[u].data
         /\ up'[u].pc \notin {"closed", "written"}
    BY <1>1, <2>5, <2>6
  <2>14. \A i \in DOMAIN up'[u].pending : up'[u].pending[i].spent => up'[u].pending[i].backed
    <3>1. \A i \in DOMAIN p.pending : p.pending[i].spent => p.pending[i].backed
      BY DEF IInv, Read, ReadOf
    <3>2. item.spent => item.backed
      BY <1>1, <2>2, <3>1
    <3> QED
      BY <2>4, <2>7, <3>1, <3>2
  <2> QED
    BY <1>1, <2>1, <2>6, <2>7, <2>9, <2>10, <2>11, <2>12, <2>13, <2>14, WorkKeeps
<1> QED
  BY <1>1, <1>2, <1>3 DEF Rollback, InReverse

--------------------------------------------------------------------------------
(* The steps around ExecuteUpdateJobs.                                          *)

(* The config written names what was named before, and what has been uploaded.  *)
LEMMA WriteKeeps == ASSUME IInv, NEW u \in Updaters, Write(u) PROVE IInv'
<1> DEFINE p == up[u]
           q == [p EXCEPT !.pc = "written"]
<1>1. p \in BaseConfigs /\ p.pending \in Seq(Uploads) /\ Busy(u) /\ p.data \in Config
      /\ p.at <= Len(p.pending)
      /\ p.pc = "write" /\ disk' = p.data /\ UNCHANGED <<cloud, events, doubt, unkept>>
  BY AtWork DEF Write, IInv, Read, ReadOf, AtLoop
<1>2. q \in BaseConfigs /\ q.pc = "written" /\ q.at = p.at /\ q.pending = p.pending
      /\ q.data = p.data /\ q.before = p.before
  BY <1>1 DEF BaseConfigs
<1>3. up' = [up EXCEPT ![u] = q]
  BY DEF Write, Go, IInv, TypeOK
<1> HIDE DEF q
<1>4. up'[u] = q /\ OthersSame(u) /\ TypeOK'
  <2>1. /\ disk' \in Config \cup {Torn} /\ doubt' \subseteq Hashes /\ unkept' \subseteq Hashes
        /\ q.at <= Len(q.pending)
        /\ cloud' \in [Names -> Hashes \cup {None}] /\ events' \in 0..MaxEvents
    BY <1>1, <1>2 DEF IInv, TypeOK
  <2> QED
    BY <2>1, <1>2, <1>3, Moves DEF IInv
<1>5. Busy(u)' /\ up'[u].pending = p.pending
  BY <1>2, <1>4 DEF Busy
<1>6. Exclusive'
  <2>1. \A i \in DOMAIN up'[u].pending : i \in DOMAIN up[u].pending /\ Engaged(u, i)
    BY <1>1, <1>5 DEF Engaged
  <2> QED
    BY <2>1, <1>1, <1>4, <1>5, ExclusiveKept DEF IInv
<1>7. NamedStays'
  <2>1. ASSUME NEW h \in Hashes, Named(h)' PROVE Named(h) \/ h \in Of(p.pending)
    <3>1. CASE \E pl \in Platforms : p.data.hash[pl] = h
      BY <3>1, <1>1 DEF Named, Busy
    <3>2. CASE ~\E pl \in Platforms : p.data.hash[pl] = h
      <4>1. PICK v \in Updaters :
                  /\ up'[v].pc # "closed" /\ (up'[v].pc # "written" => h \notin Of(up'[v].pending))
                  /\ \E pl \in Platforms : up'[v].data.hash[pl] = h
        BY <2>1, <3>2, <1>1 DEF Named
      <4>2. v # u
        BY <4>1, <3>2, <1>2, <1>4
      <4> QED
        BY <4>1, <4>2, <1>4 DEF Named, OthersSame
    <3> QED
      BY <3>1, <3>2
  <2>2. ASSUME NEW h \in Hashes \ (doubt \cup unkept), h \in Of(p.pending)
        PROVE  cloud[h] = h /\ \A v \in Updaters \ {u} : LeavesIt(v, h)
    <3>1. PICK i \in DOMAIN p.pending : p.pending[i].hash = h
      BY <2>2 DEF Of
    <3>2. Uploaded(u, i)
      BY <3>1, <2>2, <1>1 DEF IInv, Progress, ProgressOf
    <3>3. cloud[h] = h
      BY <3>1, <3>2, <2>2, <1>1 DEF Uploaded
    <3>4. ASSUME NEW v \in Updaters \ {u}, NEW j \in DOMAIN up[v].pending,
                 up[v].pending[j].hash = h, Done(up[v].pending[j])
          PROVE  FALSE
      <4>1. Engaged(u, i) /\ Engaged(v, j)
        BY <1>1, <3>4 DEF Engaged
      <4> QED
        BY <4>1, <2>2, <3>1, <3>4 DEF IInv, Exclusive
    <3> QED
      BY <3>3, <3>4 DEF LeavesIt, Done
  <2>3. ASSUME NEW h \in Hashes \ (doubt \cup unkept), Named(h)'
        PROVE  cloud[h] = h /\ \A v \in Updaters \ {u} : LeavesIt(v, h)
    <3>1. CASE Named(h)
      BY <3>1, <2>3 DEF IInv, NamedStays
    <3> QED
      BY <3>1, <2>1, <2>2, <2>3
  <2>4. ASSUME NEW h \in Hashes \ (doubt \cup unkept), Named(h)', NEW v \in Updaters
        PROVE  LeavesIt(v, h)'
    <3>1. CASE v = u
      BY <3>1, <1>2, <1>4 DEF LeavesIt
    <3>2. CASE v # u
      <4>1. LeavesIt(v, h) /\ up'[v] = up[v]
        BY <3>2, <2>3, <2>4, <1>4 DEF OthersSame
      <4> QED
        BY <4>1, <1>1 DEF LeavesIt
    <3> QED
      BY <3>1, <3>2
  <2> QED
    BY <2>3, <2>4, <1>1 DEF NamedStays
<1>8. ReadOf(u)'
  BY <1>1, <1>2, <1>4 DEF ReadOf, IInv, Read
<1>9. ProgressOf(u)'
  BY <1>1, <1>2, <1>4 DEF IInv, Progress, ProgressOf, Busy, Uploaded, AtLoop
<1>10. RestoresOf(u)'
  <2>1. ToUndo(u)' = ToUndo(u)
    BY <1>1, <1>2, <1>4 DEF ToUndo
  <2> QED
    BY <2>1, <1>1, <1>2, <1>4, RestoresKept DEF Untouched
<1> QED
  BY <1>1, <1>4, <1>6, <1>7, <1>8, <1>9, <1>10, StepKeeps DEF Untouched

(* The uploads of a config that is written are kept.                            *)
LEMMA ClearPendingKeeps == ASSUME IInv, NEW u \in Updaters, ClearPending(u) PROVE IInv'
<1> DEFINE p == up[u]
           q == [[[[p EXCEPT !.pc = "ready"] EXCEPT !.pending = <<>>] EXCEPT !.at = 0]
                     EXCEPT !.before = <<>>]
<1>1. p \in BaseConfigs /\ Busy(u) /\ p.data \in Config
      /\ p.pc = "written" /\ UNCHANGED <<disk, cloud, events, doubt, unkept>>
  BY AtWork DEF ClearPending, IInv, Read, ReadOf, AtLoop
<1>2. q \in BaseConfigs /\ q.pc = "ready" /\ q.at = 0 /\ q.pending = <<>> /\ q.data = p.data
  <2>1. <<>> \in Seq(Uploads)
    OBVIOUS
  <2> PICK none \in Seq(Uploads) : none = <<>>
    BY <2>1
  <2> DEFINE r == [[[[p EXCEPT !.pc = "ready"] EXCEPT !.pending = none] EXCEPT !.at = 0]
                     EXCEPT !.before = none]
  <2>2. r \in BaseConfigs /\ r.pc = "ready" /\ r.at = 0 /\ r.pending = none /\ r.data = p.data
    BY <1>1 DEF BaseConfigs
  <2> QED
    BY <2>2
<1>3. up' = [up EXCEPT ![u] = q]
  BY DEF ClearPending, IInv, TypeOK
<1> HIDE DEF q
<1>4. up'[u] = q /\ OthersSame(u) /\ TypeOK'
  <2>1. /\ disk' \in Config \cup {Torn} /\ doubt' \subseteq Hashes /\ unkept' \subseteq Hashes
        /\ q.at <= Len(q.pending)
        /\ cloud' \in [Names -> Hashes \cup {None}] /\ events' \in 0..MaxEvents
    BY <1>1, <1>2 DEF IInv, TypeOK
  <2> QED
    BY <2>1, <1>2, <1>3, Moves DEF IInv
<1>5. DOMAIN up'[u].pending = {} /\ ~Busy(u)'
  BY <1>2, <1>4 DEF Busy
<1>6. Exclusive'
  BY <1>1, <1>4, <1>5, ExclusiveKept DEF IInv
<1>7. NamedStays'
  <2>1. ASSUME NEW h \in Hashes, Named(h)' PROVE Named(h)
    <3>1. CASE \E pl \in Platforms : p.data.hash[pl] = h
      BY <3>1, <1>1 DEF Named
    <3>2. CASE disk # Torn /\ \E pl \in Platforms : disk.hash[pl] = h
      BY <3>2 DEF Named
    <3>3. CASE /\ ~\E pl \in Platforms : p.data.hash[pl] = h
               /\ ~(disk # Torn /\ \E pl \in Platforms : disk.hash[pl] = h)
      <4>1. PICK v \in Updaters :
                  /\ up'[v].pc # "closed" /\ (up'[v].pc # "written" => h \notin Of(up'[v].pending))
                  /\ \E pl \in Platforms : up'[v].data.hash[pl] = h
        BY <2>1, <3>3, <1>1 DEF Named
      <4>2. v # u
        BY <4>1, <3>3, <1>2, <1>4
      <4> QED
        BY <4>1, <4>2, <1>4 DEF Named, OthersSame
    <3> QED
      BY <3>1, <3>2, <3>3
  <2>2. \A h \in Hashes : LeavesIt(u, h)'
    BY <1>5 DEF LeavesIt
  <2> QED
    BY <2>1, <2>2, <1>1, <1>4, StaysKept
<1>8. ReadOf(u)' /\ ProgressOf(u)' /\ RestoresOf(u)'
  BY <1>1, <1>2, <1>4, <1>5 DEF ReadOf, ProgressOf, RestoresOf, AtLoop
<1> QED
  BY <1>1, <1>4, <1>6, <1>7, <1>8, StepKeeps DEF Untouched

(* A program that ends, or is done with its config, names and undoes nothing.   *)
LEMMA CloseKeeps ==
    ASSUME IInv, NEW u \in Updaters, up' = [up EXCEPT ![u] = Closed],
           UNCHANGED <<disk, cloud, doubt, unkept>>, events' \in 0..MaxEvents
    PROVE  IInv'
<1>1. Closed \in BaseConfigs /\ Closed.pc = "closed" /\ Closed.at = 0 /\ Closed.pending = <<>>
  BY DEF Closed, BaseConfigs
<1>2. up'[u] = Closed /\ OthersSame(u) /\ TypeOK'
  <2>1. /\ disk' \in Config \cup {Torn} /\ doubt' \subseteq Hashes /\ unkept' \subseteq Hashes
        /\ Closed.at <= Len(Closed.pending) /\ cloud' \in [Names -> Hashes \cup {None}]
    BY <1>1 DEF IInv, TypeOK
  <2> QED
    BY <2>1, <1>1, Moves DEF IInv
<1>3. DOMAIN up'[u].pending = {} /\ ~Busy(u)' /\ up'[u].pc = "closed"
  BY <1>1, <1>2 DEF Busy
<1>4. Exclusive'
  BY <1>2, <1>3, ExclusiveKept DEF IInv
<1>5. NamedStays'
  <2>1. ASSUME NEW h \in Hashes, Named(h)' PROVE Named(h)
    BY <2>1, <1>2, <1>3 DEF Named, OthersSame
  <2>2. \A h \in Hashes : LeavesIt(u, h)'
    BY <1>3 DEF LeavesIt
  <2> QED
    BY <2>1, <2>2, <1>2, StaysKept
<1>6. ReadOf(u)' /\ ProgressOf(u)' /\ RestoresOf(u)'
  BY <1>1, <1>2, <1>3 DEF ReadOf, ProgressOf, RestoresOf, AtLoop
<1> QED
  BY <1>2, <1>4, <1>5, <1>6, StepKeeps DEF Untouched

LEMMA OpenKeeps == ASSUME IInv, NEW u \in Updaters, Open(u) PROVE IInv'
<1> DEFINE q == [[Closed EXCEPT !.pc = "ready"] EXCEPT !.data = disk]
<1>1. up[u].pc = "closed" /\ disk \in Config /\ disk # Torn /\ UNCHANGED <<disk, cloud, events, doubt, unkept>>
  BY DEF Open, IInv, TypeOK
<1>2. q \in BaseConfigs /\ q.pc = "ready" /\ q.at = 0 /\ q.pending = <<>> /\ q.data = disk
  <2>1. Closed \in BaseConfigs /\ Closed.at = 0 /\ Closed.pending = <<>>
    BY DEF Closed, BaseConfigs
  <2> QED
    BY <1>1, <2>1 DEF BaseConfigs
<1>3. up' = [up EXCEPT ![u] = q]
  BY DEF Open
<1> HIDE DEF q
<1>4. up'[u] = q /\ OthersSame(u) /\ TypeOK'
  <2>1. /\ disk' \in Config \cup {Torn} /\ doubt' \subseteq Hashes /\ unkept' \subseteq Hashes
        /\ q.at <= Len(q.pending)
        /\ cloud' \in [Names -> Hashes \cup {None}] /\ events' \in 0..MaxEvents
    BY <1>1, <1>2 DEF IInv, TypeOK
  <2> QED
    BY <2>1, <1>2, <1>3, Moves DEF IInv
<1>5. DOMAIN up'[u].pending = {} /\ ~Busy(u)'
  BY <1>2, <1>4 DEF Busy
<1>6. Exclusive'
  BY <1>1, <1>4, <1>5, ExclusiveKept DEF IInv
<1>7. NamedStays'
  <2>1. ASSUME NEW h \in Hashes, Named(h)' PROVE Named(h)
    <3>1. CASE \E pl \in Platforms : disk.hash[pl] = h
      BY <3>1, <1>1 DEF Named
    <3>2. CASE ~\E pl \in Platforms : disk.hash[pl] = h
      <4>1. PICK v \in Updaters :
                  /\ up'[v].pc # "closed" /\ (up'[v].pc # "written" => h \notin Of(up'[v].pending))
                  /\ \E pl \in Platforms : up'[v].data.hash[pl] = h
        BY <2>1, <3>2, <1>1 DEF Named
      <4>2. v # u
        BY <4>1, <3>2, <1>2, <1>4
      <4> QED
        BY <4>1, <4>2, <1>4 DEF Named, OthersSame
    <3> QED
      BY <3>1, <3>2
  <2>2. \A h \in Hashes : LeavesIt(u, h)'
    BY <1>5 DEF LeavesIt
  <2> QED
    BY <2>1, <2>2, <1>1, <1>4, StaysKept
<1>8. ReadOf(u)' /\ ProgressOf(u)' /\ RestoresOf(u)'
  BY <1>1, <1>2, <1>4, <1>5 DEF ReadOf, ProgressOf, RestoresOf, AtLoop
<1> QED
  BY <1>1, <1>4, <1>6, <1>7, <1>8, StepKeeps DEF Untouched

(* A config with more uploads to come names nothing new before they are made.   *)
Extends(u, c) ==
    /\ \A i \in DOMAIN up[u].pending : i \in DOMAIN c.pending /\ c.pending[i] = up[u].pending[i]
    /\ \A i \in DOMAIN c.pending \ DOMAIN up[u].pending :
        ~Done(c.pending[i]) /\ ~c.pending[i].spent
    /\ \A h \in Hashes \ Of(c.pending) :
        (\E pl \in Platforms : c.data.hash[pl] = h) => \E pl \in Platforms : up[u].data.hash[pl] = h

LEMMA ExtendsKeeps ==
    ASSUME IInv, NEW u \in Updaters, up[u].pc = "ready", NEW c, Extends(u, c), OthersSame(u),
           c.data \in Config, up'[u].pending = c.pending, up'[u].data = c.data,
           up'[u].pc \notin {"closed", "written"}, UNCHANGED <<disk, cloud, unkept>>,
           doubt \subseteq doubt'
    PROVE  NamedStays' /\ ReadOf(u)'
<1>2. ASSUME NEW i \in DOMAIN c.pending
      PROVE  /\ c.pending[i].spent => c.pending[i].backed
             /\ Done(c.pending[i]) =>
                  i \in DOMAIN up[u].pending /\ c.pending[i] = up[u].pending[i]
  <2>1. CASE i \in DOMAIN up[u].pending
    BY <2>1 DEF Extends, IInv, Read, ReadOf
  <2>2. CASE i \notin DOMAIN up[u].pending
    BY <2>2 DEF Extends
  <2> QED
    BY <2>1, <2>2
<1>3. ReadOf(u)'
  BY <1>2 DEF ReadOf
<1>4. ASSUME NEW h \in Hashes, Named(h)' PROVE Named(h)
  <2>1. CASE disk # Torn /\ \E pl \in Platforms : disk.hash[pl] = h
    BY <2>1 DEF Named
  <2>2. ASSUME NEW v \in Updaters, up'[v].pc # "closed",
               up'[v].pc # "written" => h \notin Of(up'[v].pending),
               \E pl \in Platforms : up'[v].data.hash[pl] = h
        PROVE  Named(h)
    <3>1. CASE v = u
      <4>1. h \notin Of(c.pending) /\ \E pl \in Platforms : up[u].data.hash[pl] = h
        BY <2>2, <3>1 DEF Extends
      <4>2. h \notin Of(up[u].pending)
        BY <4>1 DEF Extends, Of
      <4> QED
        BY <4>1, <4>2 DEF Named
    <3>2. CASE v # u
      BY <2>2, <3>2 DEF Named, OthersSame
    <3> QED
      BY <3>1, <3>2
  <2> QED
    BY <1>4, <2>1, <2>2 DEF Named
<1>5. ASSUME NEW h \in Hashes \ (doubt' \cup unkept'), Named(h)'
      PROVE  Named(h) /\ LeavesIt(u, h)'
  <2>1. Named(h) /\ LeavesIt(u, h)
    BY <1>4, <1>5 DEF IInv, NamedStays
  <2>2. ASSUME NEW i \in DOMAIN c.pending, c.pending[i].hash = h
        PROVE  /\ c.pending[i].updated => c.pending[i].backed
               /\ c.pending[i].backed => cloud[Old(h)] = h
    BY <2>1, <2>2, <1>2 DEF LeavesIt, Done
  <2> QED
    BY <2>1, <2>2 DEF LeavesIt
<1>6. NamedStays'
  BY <1>5, StaysKept
<1> QED
  BY <1>3, <1>6

LEMMA ReadyKeeps ==
    ASSUME IInv, NEW u \in Updaters, up[u].pc = "ready", NEW c \in BaseConfigs, c.pc = "ready",
           c.data \in Config, c.at <= Len(c.pending), Extends(u, c), up' = [up EXCEPT ![u] = c],
           UNCHANGED <<disk, cloud, doubt, unkept>>, events' \in 0..MaxEvents
    PROVE  IInv'
<1>1. up'[u] = c /\ OthersSame(u) /\ TypeOK'
  <2>1. /\ disk' \in Config \cup {Torn} /\ doubt' \subseteq Hashes /\ unkept' \subseteq Hashes
        /\ cloud' \in [Names -> Hashes \cup {None}]
    BY DEF IInv, TypeOK
  <2> QED
    BY <2>1, Moves DEF IInv
<1>2. NamedStays' /\ ReadOf(u)'
  BY <1>1, ExtendsKeeps
<1>3. ~Busy(u)'
  BY <1>1 DEF Busy
<1>4. Exclusive'
  <2>1. ASSUME NEW i \in DOMAIN up'[u].pending, Engaged(u, i)'
        PROVE  /\ i \in DOMAIN up[u].pending /\ Engaged(u, i)
               /\ up'[u].pending[i].hash = up[u].pending[i].hash
    BY <2>1, <1>1, <1>3 DEF Engaged, Extends
  <2> QED
    BY <2>1, <1>1, ExclusiveKept DEF IInv
<1>5. ProgressOf(u)' /\ RestoresOf(u)'
  BY <1>1, <1>3 DEF ProgressOf, RestoresOf, AtLoop
<1> QED
  BY <1>1, <1>2, <1>4, <1>5, StepKeeps DEF Untouched

(* ExecuteUpdateJobs puts in doubt what others have pending, and all of a       *)
(* second attempt; the rest starts anew.                                        *)
LEMMA ExecutedKeeps ==
    ASSUME IInv, NEW u \in Updaters, up[u].pc = "ready", NEW c \in BaseConfigs, c.pc = "ready",
           c.data \in Config, c.at <= Len(c.pending), Extends(u, c),
           NEW force \in BOOLEAN, Executed(u, c, force), UNCHANGED <<disk, cloud, events, unkept>>
    PROVE  IInv'
<1>1. CASE ~(IsDirty(c.data) /\ c.pending # <<>>)
  BY <1>1, ReadyKeeps DEF Executed, IInv, TypeOK
<1>2. CASE IsDirty(c.data) /\ c.pending # <<>>
  <2> DEFINE others == UNION {Of(up[v].pending) : v \in Updaters \ {u}}
             again  == \E i \in DOMAIN c.pending : c.pending[i].backed \/ c.pending[i].updated
             now    == [h \in Hashes |-> cloud[h]]
             q      == [[[[c EXCEPT !.pc = "exists"] EXCEPT !.at = 1] EXCEPT !.force = force]
                          EXCEPT !.before = now]
  <2>1. /\ up' = [up EXCEPT ![u] = q]
        /\ doubt' = doubt \cup (IF again THEN Of(c.pending) ELSE Of(c.pending) \cap others)
    BY <1>2 DEF Executed
  <2>2. /\ c.pending \in Seq(Uploads) /\ 1 <= Len(c.pending)
        /\ \A i \in DOMAIN c.pending : c.pending[i] \in Uploads
    <3>1. c.pending \in Seq(Uploads)
      BY DEF BaseConfigs
    <3> QED
      BY <3>1, <1>2
  <2>3. Of(c.pending) \subseteq Hashes
    BY <2>2 DEF Of, Uploads
  <2>4. now \in [Hashes -> Hashes \cup {None}] /\ \A h \in Hashes : now[h] = cloud[h]
    BY DistinctNames DEF IInv, TypeOK
  <2> HIDE DEF now
  <2>5. /\ q \in BaseConfigs /\ q.pc = "exists" /\ q.at = 1 /\ q.pending = c.pending
        /\ q.data = c.data /\ q.before = now
    BY <2>2, <2>4 DEF BaseConfigs
  <2> HIDE DEF q
  <2>6. up'[u] = q /\ OthersSame(u) /\ TypeOK'
    <3>1. /\ disk' \in Config \cup {Torn} /\ doubt' \subseteq Hashes /\ unkept' \subseteq Hashes
          /\ q.at <= Len(q.pending)
          /\ cloud' \in [Names -> Hashes \cup {None}] /\ events' \in 0..MaxEvents
      BY <2>1, <2>2, <2>3, <2>5 DEF IInv, TypeOK
    <3> QED
      BY <3>1, <2>1, <2>5, Moves DEF IInv
  <2>7. doubt \subseteq doubt' /\ \A v \in Updaters \ {u} : Of(c.pending) \cap Of(up[v].pending) \subseteq doubt'
    BY <2>1
  <2>8. \A i \in DOMAIN c.pending : c.pending[i].hash \notin doubt' => ~Done(c.pending[i])
    BY <2>1 DEF Of, Done
  <2> HIDE DEF others, again
  <2>9. NamedStays' /\ ReadOf(u)'
    BY <2>5, <2>6, <2>7, ExtendsKeeps
  <2>10. Exclusive'
    <3>1. ASSUME NEW x \in Updaters, NEW y \in Updaters, x # y,
                 NEW i \in DOMAIN up'[x].pending, NEW j \in DOMAIN up'[y].pending,
                 up'[x].pending[i].hash = up'[y].pending[j].hash,
                 Engaged(x, i)', Engaged(y, j)'
          PROVE  up'[x].pending[i].hash \in doubt'
      <4> DEFINE h == up'[x].pending[i].hash
      <4>1. h \in Of(up'[x].pending) /\ h \in Of(up'[y].pending)
        BY <3>1 DEF Of
      <4>2. CASE x = u
        BY <4>1, <4>2, <3>1, <2>5, <2>6, <2>7 DEF OthersSame
      <4>3. CASE y = u
        BY <4>1, <4>3, <3>1, <2>5, <2>6, <2>7 DEF OthersSame
      <4>4. CASE x # u /\ y # u
        <5>1. up'[x] = up[x] /\ up'[y] = up[y]
          BY <4>4, <2>6 DEF OthersSame
        <5>2. Engaged(x, i) /\ Engaged(y, j)
          BY <3>1, <5>1 DEF Engaged, Busy
        <5> QED
          BY <3>1, <5>1, <5>2, <2>7 DEF IInv, Exclusive
      <4> QED
        BY <4>2, <4>3, <4>4
    <3> QED
      BY <3>1 DEF Exclusive
  <2>11. ProgressOf(u)'
    <3>1. \A i \in DOMAIN c.pending : i \in Nat /\ ~(i < 1)
      BY <2>2
    <3>2. \A i \in DOMAIN c.pending : c.pending[i].hash \notin doubt' => ~c.pending[i].spent
      BY <2>5, <2>6, <2>8, <2>9 DEF ReadOf, Done
    <3> QED
      BY <3>1, <3>2, <2>4, <2>5, <2>6, <2>8 DEF ProgressOf, Uploaded, Done, AtLoop
  <2>12. RestoresOf(u)'
    <3>1. ASSUME NEW h \in Of(c.pending) \ doubt' PROVE Restorable(u, h)'
      <4>1. {i \in ToUndo(u)' : c.pending[i].hash = h} = {}
        BY <3>1, <2>5, <2>6, <2>8 DEF ToUndo
      <4>2. cloud'[h] = now[h]
        BY <3>1, <2>3, <2>4
      <4> QED
        BY <4>1, <4>2, <2>5, <2>6 DEF Restorable
    <3> QED
      BY <3>1, <2>5, <2>6 DEF RestoresOf
  <2>13. \A h \in Hashes : Untouched(h)
    BY DEF Untouched
  <2> QED
    BY <2>6, <2>7, <2>9, <2>10, <2>11, <2>12, <2>13, StepKeeps
<1> QED
  BY <1>1, <1>2

(* The calls that add to a config.                                              *)

LEMMA ExecuteKeeps == ASSUME IInv, NEW u \in Updaters, ExecuteUpdateJobs(u) PROVE IInv'
<1>1. /\ up[u].pc = "ready" /\ up[u] \in BaseConfigs /\ up[u].data \in Config
      /\ up[u].at <= Len(up[u].pending)
  BY DEF ExecuteUpdateJobs, IInv, TypeOK, Read, ReadOf
<1>2. Extends(u, up[u])
  BY DEF Extends
<1>3. PICK force \in BOOLEAN : Executed(u, up[u], force)
  BY DEF ExecuteUpdateJobs
<1>4. UNCHANGED <<disk, cloud, events, unkept>>
  BY DEF ExecuteUpdateJobs
<1> QED
  BY <1>1, <1>2, <1>3, <1>4, ExecutedKeeps

LEMMA AddKeeps ==
    ASSUME IInv, NEW u \in Updaters, AddCloudStorageDependencyUpdateJob(u)
    PROVE  IInv'
<1> DEFINE p == up[u]
           s == p.pending
<1>1. PICK pl \in Platforms, h \in Hashes, execute \in BOOLEAN :
        LET c == [up[u] EXCEPT !.data.hash[pl] = h, !.pending = Append(@, Upload(h))] IN
        IF execute THEN Executed(u, c, FALSE)
                   ELSE up' = [up EXCEPT ![u] = c] /\ UNCHANGED doubt
  BY DEF AddCloudStorageDependencyUpdateJob
<1> DEFINE c == [up[u] EXCEPT !.data.hash[pl] = h, !.pending = Append(@, Upload(h))]
<1>2. IF execute THEN Executed(u, c, FALSE) ELSE up' = [up EXCEPT ![u] = c] /\ UNCHANGED doubt
  BY <1>1
<1>3. /\ p \in BaseConfigs /\ p.pc = "ready" /\ p.data \in Config /\ p.at <= Len(s)
      /\ s \in Seq(Uploads) /\ p.at \in Nat
  BY DEF AddCloudStorageDependencyUpdateJob, IInv, TypeOK, BaseConfigs, Read, ReadOf
<1>4. Upload(h) \in Uploads /\ ~Done(Upload(h)) /\ ~Upload(h).spent
  BY DEF Upload, Uploads, Done
<1> DEFINE t == Append(s, Upload(h))
           d == [p.data EXCEPT !.hash = [p.data.hash EXCEPT ![pl] = h]]
           q == [[p EXCEPT !.data = d] EXCEPT !.pending = t]
<1>5. /\ t \in Seq(Uploads) /\ Len(t) = Len(s) + 1 /\ t[Len(s) + 1] = Upload(h)
      /\ \A i \in DOMAIN s : i \in DOMAIN t /\ t[i] = s[i]
      /\ DOMAIN t \ DOMAIN s = {Len(s) + 1}
  BY <1>3, <1>4
<1>6. d \in Config /\ \A x \in Platforms : d.hash[x] = IF x = pl THEN h ELSE p.data.hash[x]
  BY <1>3 DEF Config
<1>7. c = q
  BY <1>3 DEF BaseConfigs, Config
<1> HIDE DEF t, d
<1>8. /\ q \in BaseConfigs /\ q.pc = "ready" /\ q.data = d /\ q.pending = t /\ q.at = p.at
  BY <1>3, <1>5, <1>6 DEF BaseConfigs
<1> HIDE DEF q, c
<1>9. Extends(u, q)
  <2>1. Len(s) + 1 \in DOMAIN t
    BY <1>3, <1>5
  <2>2. h \in Of(t)
    BY <2>1, <1>4, <1>5 DEF Of, Upload
  <2>3. \A x \in Hashes \ Of(t) :
          (\E y \in Platforms : d.hash[y] = x) => \E y \in Platforms : p.data.hash[y] = x
    BY <2>2, <1>6
  <2> QED
    BY <2>3, <1>4, <1>5, <1>8 DEF Extends
<1>10. UNCHANGED <<disk, cloud, events, unkept>> /\ events' \in 0..MaxEvents
  BY DEF AddCloudStorageDependencyUpdateJob, IInv, TypeOK
<1>11. q.at <= Len(q.pending)
  <2>1. Len(s) \in Nat
    BY <1>3
  <2> QED
    BY <2>1, <1>3, <1>5, <1>8
<1>12. CASE execute
  BY <1>12, <1>2, <1>3, <1>6, <1>7, <1>8, <1>9, <1>10, <1>11, ExecutedKeeps
<1>13. CASE ~execute
  BY <1>13, <1>2, <1>3, <1>6, <1>7, <1>8, <1>9, <1>10, <1>11, ReadyKeeps
<1> QED
  BY <1>12, <1>13

LEMMA SetDownloadPathKeeps == ASSUME IInv, NEW u \in Updaters, SetDownloadPath(u) PROVE IInv'
<1> DEFINE p == up[u]
           d == [p.data EXCEPT !.paths = TRUE]
           q == [p EXCEPT !.data = d]
<1>1. /\ p \in BaseConfigs /\ p.pc = "ready" /\ p.data \in Config /\ p.at <= Len(p.pending)
      /\ p.at \in Nat
  BY DEF SetDownloadPath, IInv, TypeOK, BaseConfigs, Read, ReadOf
<1>2. d \in Config /\ d.hash = p.data.hash
  BY <1>1 DEF Config
<1>3. up' = [up EXCEPT ![u] = q]
  BY <1>1 DEF SetDownloadPath, IInv, TypeOK
<1> HIDE DEF d
<1>4. /\ q \in BaseConfigs /\ q.pc = "ready" /\ q.data = d /\ q.pending = p.pending /\ q.at = p.at
  BY <1>1, <1>2 DEF BaseConfigs
<1> HIDE DEF q
<1>5. Extends(u, q)
  BY <1>2, <1>4 DEF Extends
<1>6. UNCHANGED <<disk, cloud, doubt, unkept>> /\ events' \in 0..MaxEvents
  BY DEF SetDownloadPath, Event, IInv, TypeOK
<1> QED
  BY <1>1, <1>2, <1>3, <1>4, <1>5, <1>6, ReadyKeeps

--------------------------------------------------------------------------------
(* The specification.                                                           *)

LEMMA InitInv == Init => IInv
<1> SUFFICES ASSUME Init PROVE IInv
  OBVIOUS
<1>1. Closed \in BaseConfigs /\ Closed.pc = "closed" /\ Closed.at = 0 /\ Closed.pending = <<>>
  BY DEF Closed, BaseConfigs
<1>2. \A u \in Updaters :
        /\ up[u] = Closed /\ up[u].pc = "closed" /\ up[u].pending = <<>>
        /\ DOMAIN up[u].pending = {}
  BY <1>1 DEF Init
<1>3. disk \in Config
  BY DEF Init, Config
<1>4. PICK other \in [Hashes -> Hashes \cup {None}] :
        cloud = [n \in Names |-> IF n \in {disk.hash[pl] : pl \in Platforms} THEN n
                                 ELSE IF n \in Hashes THEN other[n] ELSE None]
  BY DEF Init
<1>5. \A pl \in Platforms : disk.hash[pl] \in Hashes
  BY <1>3 DEF Config
<1>6. /\ \A h \in Hashes : h \in Names /\ Old(h) \in Names /\ Old(h) \notin Hashes
      /\ cloud \in [Names -> Hashes \cup {None}]
  BY <1>4, <1>5 DEF Names
<1>7. TypeOK
  <2>1. up \in [Updaters -> BaseConfigs] /\ events \in 0..MaxEvents /\ doubt \subseteq Hashes
        /\ unkept \subseteq Hashes
    BY <1>1 DEF Init
  <2>2. \A u \in Updaters : up[u].at <= Len(up[u].pending)
    BY <1>1, <1>2
  <2> QED
    BY <2>1, <2>2, <1>3, <1>6 DEF TypeOK
<1>8. Exclusive
  BY <1>2 DEF Exclusive
<1>10. NamedStays
  <2> SUFFICES ASSUME NEW h \in Hashes, Named(h) PROVE cloud[h] = h
    BY <1>2 DEF NamedStays, LeavesIt
  <2>1. \E pl \in Platforms : disk.hash[pl] = h
    BY <1>2 DEF Named
  <2> QED
    BY <2>1, <1>4, <1>6
<1>11. \A u \in Updaters : ReadOf(u) /\ ProgressOf(u) /\ RestoresOf(u)
  BY <1>2 DEF ReadOf, ProgressOf, RestoresOf, Busy, AtLoop
<1> QED
  BY <1>7, <1>8, <1>10, <1>11 DEF IInv, Read, Progress, Restores

LEMMA StepInv == IInv /\ [Next]_vars => IInv'
<1> SUFFICES ASSUME IInv, [Next]_vars PROVE IInv'
  OBVIOUS
<1>1. CASE UNCHANGED vars
  BY <1>1, SMTT(60)
  DEF vars, IInv, TypeOK, Exclusive, Read, ReadOf, NamedStays, Named, LeavesIt, Progress,
      ProgressOf, Uploaded, Restores, RestoresOf, Restorable, ToUndo, Excused, Unsure, Overwritten,
      Engaged, Busy
<1>2. ASSUME NEW u \in Updaters, Close(u) \/ Die(u) PROVE IInv'
  <2>1. up' = [up EXCEPT ![u] = Closed] /\ UNCHANGED <<disk, cloud, doubt, unkept>>
    BY <1>2 DEF Close, Die
  <2>2. events' \in 0..MaxEvents
    BY <1>2 DEF Close, Die, Event, IInv, TypeOK
  <2> QED
    BY <2>1, <2>2, CloseKeeps
<1>3. ASSUME NEW u \in Updaters, RollbackFails(u) \/ RolledBack(u) PROVE IInv'
  <2>1. up[u].pc = "rollback" /\ RaiseToCaller(u) /\ UNCHANGED <<disk, cloud, doubt, unkept>>
    BY <1>3 DEF RollbackFails, RolledBack
  <2>2. events' \in 0..MaxEvents
    BY <1>3 DEF RollbackFails, RolledBack, Event, IInv, TypeOK
  <2> QED
    BY <2>1, <2>2, RaiseKeeps
<1>4. CASE Next
  <2>1. PICK u \in Updaters :
          \/ Open(u) \/ Close(u) \/ Die(u)
          \/ AddCloudStorageDependencyUpdateJob(u) \/ SetDownloadPath(u) \/ ExecuteUpdateJobs(u)
          \/ Exists(u) \/ Copy(u) \/ Insert(u) \/ Truncate(u) \/ Write(u) \/ ClearPending(u)
          \/ Fails(u) \/ Rollback(u) \/ RollbackFails(u) \/ RolledBack(u)
    BY <1>4 DEF Next
  <2>2. CASE Open(u)
    BY <2>2, OpenKeeps
  <2>3. CASE AddCloudStorageDependencyUpdateJob(u)
    BY <2>3, AddKeeps
  <2>4. CASE SetDownloadPath(u)
    BY <2>4, SetDownloadPathKeeps
  <2>5. CASE ExecuteUpdateJobs(u)
    BY <2>5, ExecuteKeeps
  <2>6. CASE Exists(u)
    BY <2>6, ExistsKeeps
  <2>7. CASE Copy(u)
    BY <2>7, CopyKeeps
  <2>8. CASE Insert(u)
    BY <2>8, InsertKeeps
  <2>9. CASE Truncate(u)
    BY <2>9, TruncateKeeps
  <2>10. CASE Write(u)
    BY <2>10, WriteKeeps
  <2>11. CASE Fails(u)
    BY <2>11, FailsKeeps
  <2>12. CASE Rollback(u)
    BY <2>12, RollbackKeeps
  <2>13. CASE ClearPending(u)
    BY <2>13, ClearPendingKeeps
  <2> QED
    BY <1>2, <1>3, <2>1, <2>2, <2>3, <2>4, <2>5, <2>6, <2>7, <2>8, <2>9, <2>10, <2>11, <2>12,
       <2>13
<1> QED
  BY <1>1, <1>4

LEMMA Invariance == Spec => []IInv
BY InitInv, StepInv, PTL DEF Spec

(* The config on disk, the bucket and every open config keep their types: an    *)
(* update works on one of its own uploads or has rolled all of them back.       *)
THEOREM TypeCorrect == Spec => []TypeOK
<1>1. IInv => TypeOK
  BY DEF IInv
<1> QED
  BY <1>1, Invariance, PTL

(* Whatever fails or dies within ExecuteUpdateJobs, a config that can be loaded *)
(* names only files that the bucket holds under their hash: but for those that  *)
(* two programs upload at a time or a second attempt uploads (doubt), those     *)
(* that changed between their hash and their upload, and those whose uploads an *)
(* interrupt rolled back after the config was written (unkept).                 *)
THEOREM NamedFilesAreStored == Spec => []NamedIsStored
<1>1. IInv => NamedIsStored
  <2> SUFFICES ASSUME IInv, disk # Torn, NEW pl \in Platforms,
                      disk.hash[pl] \notin doubt \cup unkept
               PROVE  cloud[disk.hash[pl]] = disk.hash[pl]
    BY DEF NamedIsStored
  <2>1. disk.hash[pl] \in Hashes /\ Named(disk.hash[pl])
    BY DEF IInv, TypeOK, Config, Named
  <2> QED
    BY <2>1 DEF IInv, NamedStays
<1> QED
  BY <1>1, Invariance, PTL

(* CloudStorageUploader.Rollback of every pending upload, in reverse, leaves    *)
(* what the bucket held before the first, whatever that was: but for what two   *)
(* programs upload at a time or a second attempt uploads, for an upload that    *)
(* was done though its command failed, and for an object that two uploads of    *)
(* the attempt replaced.                                                        *)
THEOREM RollbacksRestore == Spec => []RollbackRestores
<1>1. IInv => RollbackRestores
  <2> SUFFICES ASSUME IInv, NEW u \in Updaters, up[u].pc = "rollback", up[u].at = 0,
                      NEW h \in Of(up[u].pending) \ doubt, ~Excused(u, h)
               PROVE  cloud[h] = up[u].before[h]
    BY DEF RollbackRestores, Excused, Unsure
  <2>1. Restorable(u, h)
    BY DEF IInv, Restores, RestoresOf, Busy
  <2>2. up[u].pending \in Seq(Uploads)
    BY DEF IInv, TypeOK, BaseConfigs
  <2>3. \A i \in DOMAIN up[u].pending : ~(i <= 0)
    BY <2>2
  <2>4. {i \in ToUndo(u) : up[u].pending[i].hash = h} = {}
    BY <2>3 DEF ToUndo
  <2> QED
    BY <2>1, <2>4 DEF Restorable
<1> QED
  BY <1>1, Invariance, PTL
================================================================================
