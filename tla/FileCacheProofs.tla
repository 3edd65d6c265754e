---------------------------- MODULE FileCacheProofs ----------------------------
(***************************************************************************)
(* Proofs about FileCache: descriptors, what hits serve, the scan of the   *)
(* directories, and, while no worker dies and no directory is renewed,     *)
(* what stays in them.                                                     *)
(***************************************************************************)
EXTENDS FileCache, TLAPS

(***************************************************************************)
(* The inductive invariant                                                 *)
(***************************************************************************)
FileRecord == [mark : {"none", "writing", "unmarked", "finished"}, expire : Nat,
               data : Seq(File), failed : BOOLEAN, blind : SUBSET Request]

(* Where a request has a descriptor, and the last directory.               *)
Opened ==
    /\ \A r \in Request : at[r] \in {"move", "read", "hit", "error", "store"} => fd[r] # None
    /\ \A r \in Request : at[r] = "last" => fd[r] = None
    /\ \A r \in Request : at[r] \in {"last", "move"} => last[Home[r]] # 0

(* A file under construction is that of its request and not yet complete;  *)
(* a finished one is complete.                                             *)
Stores ==
    \A r \in Request : at[r] = "store" =>
        /\ fd[r] = r
        /\ file[r].mark = "writing"
        /\ Len(file[r].data) < Body
        /\ \A p \in 1 .. Len(file[r].data) : file[r].data[p] = r
Hits == \A r \in Request : at[r] = "hit" => file[fd[r]].mark = "finished"
Finishes ==
    /\ \A f \in File : file[f].mark = "finished" => Whole(f) \/ file[f].failed
    /\ \A r \in Request : file[r].mark = "finished" => at[r] \in {"stored", "over"}
Files == Stores /\ Hits /\ Finishes

(* Before the start there is nothing but what an earlier run left.         *)
Starting ==
    /\ ~Started => /\ now = Start /\ dirs \subseteq 1 .. Start - 1
                   /\ \A d \in Dir : entry[d] \notin Request
                   /\ \A r \in Request : at[r] = "new"
    /\ boot.cur <= Start
    /\ Started => boot.last < boot.cur /\ \A w \in Worker : cur[w] >= boot.cur

(* In the calm, what requests stored is in the current directory, and who  *)
(* may remove it was there when it was finished, or could not open it.     *)
OnlyCurrent == Calm => \A d \in Dir : entry[d] \in Request => d = boot.cur
Harmful(r, f) == at[r] \in {"last", "move", "purge", "miss", "store"}
                 \/ (at[r] = "read" /\ fd[r] # f)
Early ==
    Calm => \A f \in Request : \A d \in Dir :
        entry[d] = f /\ file[f].mark = "finished" /\ file[f].expire >= now =>
            \A r \in Request : Harmful(r, f) => r \in file[f].blind

CacheInv ==
    /\ TypeOK /\ Closed /\ Opened /\ Files
    /\ NewestTwo /\ Starting
    /\ OnlyCurrent /\ NoneLeftOver /\ Early

(***************************************************************************)
(* Lemmas about the system and the master                                  *)
(***************************************************************************)
(* A file that is not there has the fields of a file.                       *)
LEMMA NoFileType == NoFile \in FileRecord /\ NoFile.mark = "none"
BY DEF NoFile, FileRecord

(* A file stays as it is as long as it has a name or a descriptor.         *)
LEMMA LinkedKeeps ==
    ASSUME NEW files \in [File -> FileRecord], NEW names, NEW descriptors
    PROVE  LET l == Linked(files, names, descriptors) IN
           /\ l \in [File -> FileRecord]
           /\ \A f \in File : l[f] = files[f] \/ l[f] = NoFile
           /\ \A f \in File : (\E d \in Dir : names[d] = f) => l[f] = files[f]
           /\ \A f \in File : (\E r \in Request : descriptors[r] = f) => l[f] = files[f]
BY NoFileType DEF Linked

(* Two files that differ at most in who did not see them.                  *)
Alike(f, g) == f.mark = g.mark /\ f.data = g.data /\ f.failed = g.failed

(* Files that are only removed or overlooked keep what is said of them.    *)
LEMMA FilesKept ==
    ASSUME TypeOK, Files,
           \A f \in File : Alike(file'[f], file[f]) \/ file'[f] = NoFile,
           \A r \in Request : fd'[r] \in File => Alike(file'[fd'[r]], file[fd'[r]]),
           \A r \in Request : at'[r] = "store" => at[r] = "store" /\ fd'[r] = fd[r],
           \A r \in Request : at[r] \in {"stored", "over"} => at'[r] \in {"stored", "over"},
           \A r \in Request : at'[r] = "hit" => fd'[r] \in File /\ file[fd'[r]].mark = "finished"
    PROVE  Files'
<1>1. Stores'
  <2> SUFFICES ASSUME NEW r \in Request, at'[r] = "store"
               PROVE  /\ fd'[r] = r /\ Alike(file'[r], file[r])
                      /\ at[r] = "store"
    BY DEF Files, Stores, Alike
  <2>1. at[r] = "store" /\ fd'[r] = r
    BY DEF Files, Stores
  <2> QED
    BY <2>1 DEF File
<1>2. Hits'
  BY DEF Hits, Alike
<1>3. Finishes'
  <2>1. \A f \in File : file'[f].mark = "finished" => Alike(file'[f], file[f])
    BY NoFileType
  <2>2. Request \subseteq File
    BY DEF File
  <2> QED
    BY <2>1, <2>2 DEF Files, Finishes, Whole, Alike
<1> QED
  BY <1>1, <1>2, <1>3 DEF Files

(* What a request does leaves the directories of the workers alone.        *)
LEMMA RequestKeepsDirs ==
    ASSUME CacheInv, Started, UNCHANGED <<now, dirs, crashes, worker>>
    PROVE  NewestTwo' /\ Starting' /\ Started' /\ (Calm' <=> Calm)
BY DEF CacheInv, NewestTwo, Starting, Started, Calm, worker

(* A request that has begun runs in a worker, which has its directories.   *)
LEMMA Running ==
    ASSUME CacheInv, NEW r \in Request, Started \/ at[r] # "new"
    PROVE  /\ Started
           /\ Home[r] \in Worker /\ cur[Home[r]] \in Dir /\ last[Home[r]] \in Dir \cup {0}
           /\ Calm => cur[Home[r]] = boot.cur /\ last[Home[r]] = boot.last /\ boot.last # boot.cur
<1>1. Started
  BY DEF CacheInv, Starting
<1>2. Home[r] \in Worker
  BY CacheAssumption
<1>3. Calm => cur[Home[r]] = boot.cur /\ last[Home[r]] = boot.last
  BY <1>2 DEF Calm
<1>4. boot.last # boot.cur
  BY <1>1 DEF CacheInv, Starting, TypeOK, Dir
<1> QED
  BY <1>1, <1>2, <1>3, <1>4 DEF Started, CacheInv, TypeOK
(***************************************************************************)
(* The start                                                               *)
(***************************************************************************)
(* What an earlier run may have left is a state like any other.             *)
LEMMA InitInv == Init => CacheInv
<1> SUFFICES ASSUME Init PROVE CacheInv
  OBVIOUS
<1>1. ~Started /\ ~(Start = 0)
  BY CacheAssumption DEF Init, Started
<1>2. ASSUME NEW old \in Left
      PROVE  /\ old \in FileRecord
             /\ old.mark = "finished" => old.data = [p \in 1 .. Body |-> Old]
  <2>. DEFINE whole == [p \in 1 .. Body |-> Old]
  <2>1. whole \in Seq(File)
    BY CacheAssumption DEF File
  <2>. HIDE DEF whole
  <2>2. Start \in Nat /\ Start - 1 \in Nat
    BY CacheAssumption
  <2>3. CASE old = [NoFile EXCEPT !.mark = "writing"]
    <3>1. old = [mark |-> "writing", expire |-> 0, data |-> <<>>, failed |-> FALSE, blind |-> {}]
      BY <2>3 DEF NoFile
    <3> QED
      BY <3>1 DEF FileRecord
  <2>4. ASSUME NEW time \in Nat,
               old = [[NoFile EXCEPT !.mark = "finished", !.data = whole] EXCEPT !.expire = time]
        PROVE  old \in FileRecord /\ old.data = whole
    <3>1. old = [mark |-> "finished", expire |-> time, data |-> whole,
                 failed |-> FALSE, blind |-> {}]
      BY <2>4 DEF NoFile
    <3> QED
      <4>1. time \in Nat
        BY <2>4
      <4>2. old \in FileRecord
        BY <2>1, <3>1, <4>1 DEF FileRecord
      <4>3. old.data = whole
        BY <3>1
      <4> QED
        BY <4>2, <4>3
  <2>5. \/ old = [NoFile EXCEPT !.mark = "writing"]
        \/ \E time \in {Start - 1, Start} :
             old = [[NoFile EXCEPT !.mark = "finished", !.data = whole] EXCEPT !.expire = time]
    BY <1>2 DEF Left, whole
  <2> QED
    BY <2>2, <2>3, <2>4, <2>5 DEF whole
<1>3. /\ file \in [File -> FileRecord] /\ entry \in [Dir -> File \cup {None}]
      /\ \A f \in File : file[f].mark = "finished" => Whole(f)
      /\ \A f \in Request : file[f] = NoFile
      /\ \A d \in Dir : entry[d] \notin Request
  <2>1. CASE entry = [d \in Dir |-> None] /\ file = [f \in File |-> NoFile]
    BY <2>1, NoFileType, CacheAssumption DEF File
  <2>2. ASSUME NEW d \in dirs, NEW old \in Left,
               entry = [e \in Dir |-> IF e = d THEN Old ELSE None],
               file = [f \in File |-> IF f = Old THEN old ELSE NoFile]
        PROVE  <1>3!:
    <3>. DEFINE whole == [p \in 1 .. Body |-> Old]
    <3>0. old \in FileRecord /\ (old.mark = "finished" => old.data = whole)
      BY <1>2, <2>2
    <3>1. Old \in File /\ Old \notin Request /\ None \notin Request /\ Request \subseteq File
      BY CacheAssumption DEF File
    <3>2. file[Old] = old /\ \A f \in File : f # Old => file[f] = NoFile
      BY <2>2, <3>1
    <3>3. \A f \in File : file[f].mark = "finished" => Whole(f)
      <4>1. old.mark = "finished" => Whole(Old)
        BY <3>0, <3>1, <3>2 DEF Whole
      <4> QED
        BY <3>2, <4>1, NoFileType
    <3>4. file \in [File -> FileRecord]
      BY <2>2, <3>0, NoFileType
    <3>5. /\ entry \in [Dir -> File \cup {None}]
          /\ \A e \in Dir : entry[e] \notin Request
      BY <2>2, <3>1
    <3> QED
      BY <3>1, <3>2, <3>3, <3>4, <3>5
  <2> QED
    BY <2>1, <2>2 DEF Init
<1>4. TypeOK
  BY <1>3, CacheAssumption DEF Init, TypeOK, FileRecord, Dir, Place, File
<1>5. Closed /\ Opened
  BY DEF Init, Closed, Opened
<1>6. Files
  BY <1>3, NoFileType DEF Init, Files, Stores, Hits, Finishes
<1>7. NewestTwo /\ Starting
  BY <1>1, <1>3, CacheAssumption DEF Init, NewestTwo, Starting
<1>8. OnlyCurrent /\ NoneLeftOver /\ Early
  BY <1>3 DEF Init, OnlyCurrent, NoneLeftOver, Early
<1> QED
  BY <1>4, <1>5, <1>6, <1>7, <1>8 DEF CacheInv

(* One more directory listed, in any order: the newest two are known.       *)
LEMMA ScanKeeps ==
    ASSUME CacheInv, NEW ts \in dirs, Scan(ts)
    PROVE  CacheInv'
<1>1. ts \in Nat \ {0} /\ ts \in Dir /\ ts < Start
  BY CacheAssumption DEF Scan, CacheInv, Starting, TypeOK, Dir
<1>2. /\ boot' \in [cur : Dir \cup {0}, last : Dir \cup {0}, due : Nat]
      /\ boot'.cur = IF ts > boot.cur THEN ts ELSE boot.cur
      /\ boot'.last = IF ts > boot.cur THEN boot.cur
                      ELSE IF ts > boot.last THEN ts ELSE boot.last
  BY <1>1 DEF Scan, Newest, CacheInv, TypeOK
<1>3. TypeOK'
  BY <1>2 DEF Scan, CacheInv, TypeOK
<1>4. Closed' /\ Opened' /\ Files'
  BY DEF Scan, CacheInv, Closed, Opened, Files, Stores, Hits, Finishes, Whole
<1>5. ~Started' /\ ~Started
  BY DEF Scan, Started
<1>6. NewestTwo'
  <2>1. /\ boot.cur \in Nat /\ boot.last \in Nat /\ listed \subseteq Nat
        /\ ts \notin listed /\ listed' = listed \cup {ts}
    BY DEF CacheInv, TypeOK, Dir, Scan
  <2> QED
    BY <1>1, <1>2, <1>5, <2>1 DEF CacheInv, NewestTwo
<1>7. Starting'
  <2>1. boot'.cur <= Start
    BY <1>1, <1>2, CacheAssumption DEF CacheInv, Starting
  <2> QED
    BY <1>5, <2>1 DEF CacheInv, Starting, Scan
<1>8. \A d \in Dir : entry'[d] \notin Request
  BY <1>5 DEF CacheInv, Starting, Scan
<1> QED
  BY <1>3, <1>4, <1>6, <1>7, <1>8 DEF CacheInv, OnlyCurrent, NoneLeftOver, Early

(* The workers start with these, or with a new directory.                   *)
LEMMA BootKeeps ==
    ASSUME CacheInv, Boot
    PROVE  CacheInv'
<1>1. ~Started /\ now = Start /\ Start \in Dir /\ listed = dirs
  BY CacheAssumption DEF Boot, CacheInv, Starting, Dir
<1>2. (now \div Inactive + 1) * Inactive \in Nat
  <2>1. now \in Nat /\ Inactive \in Nat /\ Inactive > 0
    BY CacheAssumption DEF CacheInv, TypeOK
  <2>2. now \div Inactive \in Nat
    BY <2>1
  <2> QED
    BY <2>1, <2>2
<1>3. /\ boot' \in [cur : Dir \cup {0}, last : Dir \cup {0}, due : Nat]
      /\ boot'.cur = IF boot.cur = 0 THEN now ELSE boot.cur
      /\ boot'.last = boot.last
  BY <1>1, <1>2 DEF Boot, CacheInv, TypeOK
<1>4. boot'.cur \in Dir /\ boot'.cur <= Start
  BY <1>1, <1>3, CacheAssumption DEF CacheInv, TypeOK, Starting, Dir
<1>5. TypeOK'
  BY <1>3, <1>4 DEF Boot, CacheInv, TypeOK
<1>6. Closed' /\ Files'
  BY DEF Boot, CacheInv, Closed, Files, Stores, Hits, Finishes, Whole
<1>7. Opened'
  BY <1>1 DEF Boot, CacheInv, Opened, Starting
<1>8. NewestTwo'
  <2>1. /\ boot.cur \in Nat /\ boot.last \in Nat /\ listed \subseteq Nat \ {0}
        /\ now \in Nat \ {0}
        /\ listed' = dirs' /\ dirs' = listed \cup {boot'.cur}
    BY <1>1 DEF CacheInv, TypeOK, Dir, Boot
  <2>2. CASE listed = {}
    <3>1. boot'.cur = now /\ boot'.last = 0 /\ listed' = {now}
      BY <1>3, <2>1, <2>2 DEF CacheInv, NewestTwo
    <3> QED
      BY <2>1, <3>1 DEF NewestTwo
  <2>3. CASE listed # {}
    <3>1. boot'.cur = boot.cur /\ boot'.last = boot.last /\ listed' = listed
      BY <1>3, <2>1, <2>3 DEF CacheInv, NewestTwo
    <3> QED
      BY <2>1, <2>3, <3>1 DEF CacheInv, NewestTwo
  <2> QED
    BY <2>2, <2>3
<1>9. Starting'
  <2>1. boot'.last < boot'.cur
    BY <1>4, <1>5, <1>8 DEF NewestTwo, TypeOK, Dir
  <2>2. Started'
    BY <1>4 DEF Boot, Started, Dir
  <2> QED
    BY <1>4, <2>1, <2>2 DEF Starting, Boot, Dir
<1>10. \A d \in Dir : entry'[d] \notin Request
  BY <1>1 DEF CacheInv, Starting, Boot
<1> QED
  BY <1>5, <1>6, <1>7, <1>8, <1>9, <1>10 DEF CacheInv, OnlyCurrent, NoneLeftOver, Early
(***************************************************************************)
(* What requests do                                                        *)
(***************************************************************************)
(* The calm goes on if names are only removed, and nobody comes near a     *)
(* finished file who was not there before.                                 *)
LEMMA CalmKept ==
    ASSUME CacheInv, Calm' <=> Calm, boot' = boot, now' = now,
           \A f \in Request : file'[f] = file[f] \/ file'[f].mark = "none",
           Calm => /\ \A d \in Dir : entry'[d] = entry[d] \/ entry'[d] \notin Request
                   /\ \A f \in Request : at[f] = "store" =>
                            at'[f] = "store" \/ \A d \in Dir : entry'[d] # f
                   /\ \A f, r \in Request : \A d \in Dir :
                        /\ entry[d] = f /\ entry'[d] = f /\ Harmful(r, f)'
                        /\ file[f].mark = "finished" /\ file[f].expire >= now
                        => Harmful(r, f)
    PROVE  OnlyCurrent' /\ NoneLeftOver' /\ Early'
<1>1. OnlyCurrent'
  BY DEF CacheInv, OnlyCurrent
<1>2. NoneLeftOver'
  BY DEF CacheInv, NoneLeftOver
<1>3. Early'
  <2> SUFFICES ASSUME Calm, NEW f \in Request, NEW d \in Dir, entry'[d] = f,
                      file'[f].mark = "finished", file'[f].expire >= now,
                      NEW r \in Request, Harmful(r, f)'
               PROVE  r \in file'[f].blind
    BY DEF Early
  <2>1. entry[d] = f /\ file'[f] = file[f]
    OBVIOUS
  <2>2. Harmful(r, f)
    BY <2>1
  <2> QED
    BY <2>1, <2>2 DEF CacheInv, Early
<1> QED
  BY <1>1, <1>2, <1>3

(* A request changes nothing but its place, descriptor and files.           *)
LEMMA RequestTypes ==
    ASSUME TypeOK, UNCHANGED <<now, dirs, crashes, worker>>,
           entry' \in [Dir -> File \cup {None}], file' \in [File -> FileRecord],
           at' \in [Request -> Place], fd' \in [Request -> File \cup {None}],
           open' \in [Request -> Nat]
    PROVE  TypeOK'
BY DEF TypeOK, worker, FileRecord

(* The types of what requests change.                                      *)
LEMMA Types ==
    ASSUME TypeOK
    PROVE  /\ entry \in [Dir -> File \cup {None}] /\ file \in [File -> FileRecord]
           /\ at \in [Request -> Place] /\ fd \in [Request -> File \cup {None}]
           /\ open \in [Request -> Nat]
           /\ None \notin File /\ Request \subseteq File
BY CacheAssumption DEF TypeOK, FileRecord, File

(* open() in the current directory: from then on the file is held.          *)
LEMMA LookUpKeeps ==
    ASSUME CacheInv, NEW r \in Request, LookUp(r)
    PROVE  CacheInv'
<1>0. TypeOK
  BY DEF CacheInv
<1>1. /\ Started /\ cur[Home[r]] \in Dir /\ last[Home[r]] \in Dir \cup {0}
      /\ at[r] = "new" /\ fd[r] = None /\ open[r] = 0
      /\ UNCHANGED <<now, dirs, entry, crashes, worker>>
  BY Running DEF LookUp, CacheInv, Closed
<1>2. \/ /\ entry[cur[Home[r]]] \in File
         /\ file' = file
         /\ fd' = [fd EXCEPT ![r] = entry[cur[Home[r]]]]
         /\ open' = [open EXCEPT ![r] = 1]
         /\ at' = [at EXCEPT ![r] = "read"]
      \/ /\ file' = Overlook(r, cur[Home[r]])
         /\ UNCHANGED <<fd, open>>
         /\ at' = [at EXCEPT ![r] = IF last[Home[r]] > 0 THEN "last" ELSE "miss"]
  BY <1>1 DEF LookUp, OpensIn, CacheInv, TypeOK, Dir
<1>8. /\ file' \in [File -> FileRecord]
      /\ \A f \in File : Alike(file'[f], file[f]) /\ file'[f].expire = file[f].expire
      /\ \A f \in File : file[f].blind \subseteq file'[f].blind
  <2>1. CASE file' = file
    BY <1>0, <2>1, Types DEF Alike
  <2>2. CASE file' = Overlook(r, cur[Home[r]])
    <3>1. \A f \in File : file[f] \in FileRecord
      BY <1>0, Types
    <3>2. \A f \in File : \/ file'[f] = file[f]
                         \/ file'[f] = [file[f] EXCEPT !.blind = @ \cup {r}]
      BY <2>2 DEF Overlook
    <3>3. ASSUME NEW old \in FileRecord, NEW new, new = [old EXCEPT !.blind = @ \cup {r}]
          PROVE  /\ new \in FileRecord /\ Alike(new, old) /\ new.expire = old.expire
                 /\ old.blind \subseteq new.blind
      BY <3>3 DEF FileRecord, Alike
    <3>4. \A f \in File :
             /\ file'[f] \in FileRecord /\ Alike(file'[f], file[f])
             /\ file'[f].expire = file[f].expire /\ file[f].blind \subseteq file'[f].blind
      BY <3>1, <3>2, <3>3 DEF Alike
    <3>5. file' = [f \in File |-> file'[f]]
      BY <2>2 DEF Overlook
    <3> QED
      BY <3>4, <3>5
  <2> QED
    BY <1>2, <2>1, <2>2
<1>3. TypeOK'
  <2>1. /\ at' \in [Request -> Place] /\ fd' \in [Request -> File \cup {None}]
        /\ open' \in [Request -> Nat]
    BY <1>0, <1>2, Types DEF Place
  <2> QED
    BY <1>0, <1>1, <1>8, <2>1, Types, RequestTypes
<1>4. Closed' /\ Opened'
  <2>1. Closed'
    BY <1>0, <1>1, <1>2, Types DEF CacheInv, Closed
  <2>2. Opened'
    <3>1. /\ at'[r] \in {"read", "last", "miss"}
          /\ at'[r] = "read" => fd'[r] # None
          /\ at'[r] = "last" => fd'[r] = None /\ last[Home[r]] # 0
      BY <1>0, <1>1, <1>2, Types DEF Dir
    <3>2. \A q \in Request : q # r => at'[q] = at[q] /\ fd'[q] = fd[q]
      BY <1>0, <1>2, Types
    <3> QED
      BY <1>1, <3>1, <3>2 DEF CacheInv, Opened, worker
  <2> QED
    BY <2>1, <2>2
<1>5. Files'
  <2>1. \A q \in Request : at'[q] \in {"store", "stored", "over", "hit"} => q # r
    BY <1>0, <1>2, Types
  <2>2. \A q \in Request : q # r => at'[q] = at[q] /\ fd'[q] = fd[q]
    BY <1>0, <1>2, Types
  <2> QED
    BY <1>0, <1>1, <1>8, <2>1, <2>2, Types, FilesKept DEF Alike, CacheInv, Files, Hits, Opened
<1>6. NewestTwo' /\ Starting' /\ (Calm' <=> Calm)
  BY <1>1, RequestKeepsDirs
<1>7. OnlyCurrent' /\ NoneLeftOver'
  <2>1. \A f \in Request : at[f] = "store" => at'[f] = "store"
    BY <1>1, <1>2 DEF CacheInv, TypeOK
  <2>2. \A f \in Request : file'[f].mark = file[f].mark
    BY <1>0, <1>8, Types DEF Alike
  <2> QED
    BY <1>1, <1>6, <2>1, <2>2 DEF CacheInv, OnlyCurrent, NoneLeftOver, worker
<1>9. Early'
  <2> SUFFICES ASSUME Calm, NEW f \in Request, NEW d \in Dir, entry[d] = f,
                      file'[f].mark = "finished", file'[f].expire >= now,
                      NEW q \in Request, Harmful(q, f)'
               PROVE  q \in file'[f].blind
    BY <1>1, <1>6 DEF Early
  <2>1. /\ file[f].mark = "finished" /\ file[f].expire >= now
        /\ file[f].blind \subseteq file'[f].blind
    BY <1>0, <1>8, Types DEF Alike
  <2>2. CASE Harmful(q, f)
    BY <2>1, <2>2 DEF CacheInv, Early
  <2>3. CASE ~Harmful(q, f)
    <3>1. cur[Home[r]] = boot.cur
      BY <1>1, Running
    <3>2. entry[cur[Home[r]]] = f
      BY <3>1 DEF CacheInv, OnlyCurrent
    <3>3. q = r
      BY <1>0, <1>2, <2>3, Types DEF Harmful
    <3>4. at'[r] # "read" \/ fd'[r] # f
      <4>1. at'[r] = "read" => ~(at'[r] \in {"last", "move", "purge", "miss", "store"})
        OBVIOUS
      <4> QED
        BY <3>3, <4>1 DEF Harmful
    <3>5. file' = Overlook(r, cur[Home[r]])
      BY <1>0, <1>2, <3>2, <3>4, Types
    <3>6. f \in File /\ f # Old /\ file[f] \in FileRecord
      BY <1>0, Types, CacheAssumption
    <3>7. file'[f] = [file[f] EXCEPT !.blind = @ \cup {r}]
      BY <2>1, <3>2, <3>5, <3>6 DEF Overlook
    <3> QED
      BY <3>3, <3>6, <3>7 DEF FileRecord
  <2> QED
    BY <2>2, <2>3
<1> QED
  BY <1>3, <1>4, <1>5, <1>6, <1>7, <1>9 DEF CacheInv

(* open() in the last directory.                                            *)
LEMMA LookUpLastKeeps ==
    ASSUME CacheInv, NEW r \in Request, LookUpLast(r)
    PROVE  CacheInv'
<1>0. TypeOK
  BY DEF CacheInv
<1>1. /\ Started /\ at[r] = "last" /\ last[Home[r]] \in Dir
      /\ UNCHANGED <<now, dirs, entry, file, crashes, worker>>
  BY Running DEF LookUpLast, CacheInv, Opened
<1>2. \/ /\ entry[last[Home[r]]] \in File
         /\ fd' = [fd EXCEPT ![r] = entry[last[Home[r]]]]
         /\ open' = [open EXCEPT ![r] = @ + 1]
         /\ at' = [at EXCEPT ![r] = "move"]
      \/ /\ UNCHANGED <<fd, open>>
         /\ at' = [at EXCEPT ![r] = "miss"]
  BY <1>0, <1>1, Types DEF LookUpLast, OpensIn
<1>3. fd[r] = None /\ open[r] = 0
  BY <1>1 DEF CacheInv, Closed, Opened
<1>4. TypeOK'
  <2>1. /\ at' \in [Request -> Place] /\ fd' \in [Request -> File \cup {None}]
        /\ open' \in [Request -> Nat]
    BY <1>0, <1>2, Types DEF Place
  <2> QED
    BY <1>0, <1>1, <2>1, Types, RequestTypes
<1>5. Closed' /\ Opened'
  <2>1. Closed'
    BY <1>0, <1>1, <1>2, <1>3, Types DEF CacheInv, Closed
  <2>2. Opened'
    BY <1>0, <1>1, <1>2, Types DEF CacheInv, Opened, worker, Dir
  <2> QED
    BY <2>1, <2>2
<1>6. \A q \in Request : q # r => at'[q] = at[q] /\ fd'[q] = fd[q]
  BY <1>0, <1>2, Types
<1>7. at'[r] \in {"move", "miss"}
  BY <1>0, <1>2, Types
<1>8. Files'
  BY <1>0, <1>1, <1>6, <1>7, Types, FilesKept DEF Alike, CacheInv, Files, Hits, Opened
<1>9. NewestTwo' /\ Starting' /\ (Calm' <=> Calm)
  BY <1>1, RequestKeepsDirs
<1>10. OnlyCurrent' /\ NoneLeftOver' /\ Early'
  BY <1>1, <1>6, <1>7, <1>9, CalmKept DEF worker, Harmful
<1> QED
  BY <1>4, <1>5, <1>8, <1>9, <1>10 DEF CacheInv

(* renameat(): what requests stored is not in the last directory.           *)
LEMMA MoveKeeps ==
    ASSUME CacheInv, NEW r \in Request, Move(r)
    PROVE  CacheInv'
<1>0. TypeOK
  BY DEF CacheInv
<1>1. /\ Started /\ at[r] = "move" /\ fd[r] # None
      /\ last[Home[r]] \in Dir /\ cur[Home[r]] \in Dir
      /\ UNCHANGED <<now, dirs, fd, open, crashes, worker>>
      /\ at' = [at EXCEPT ![r] = "read"]
      /\ file' = Linked(file, entry', fd)
  BY Running DEF Move, CacheInv, Opened
<1>2. \/ /\ entry[last[Home[r]]] # None
         /\ entry' = [entry EXCEPT ![last[Home[r]]] = None,
                                   ![cur[Home[r]]] = entry[last[Home[r]]]]
      \/ UNCHANGED entry
  BY DEF Move
<1>3. /\ file' \in [File -> FileRecord]
      /\ \A f \in File : file'[f] = file[f] \/ file'[f] = NoFile
      /\ \A q \in Request : fd'[q] \in File => file'[fd'[q]] = file[fd'[q]]
  BY <1>0, <1>1, Types, LinkedKeeps
<1>4. \A q \in Request : q # r => at'[q] = at[q]
  BY <1>0, <1>1, Types
<1>5. TypeOK'
  <2>1. entry' \in [Dir -> File \cup {None}]
    BY <1>0, <1>1, <1>2, Types
  <2>2. at' \in [Request -> Place]
    BY <1>0, <1>1, Types DEF Place
  <2> QED
    BY <1>0, <1>1, <1>3, <2>1, <2>2, Types, RequestTypes
<1>6. Closed' /\ Opened'
  BY <1>0, <1>1, <1>4, Types DEF CacheInv, Closed, Opened, worker
<1>7. Files'
  BY <1>0, <1>1, <1>3, <1>4, Types, FilesKept DEF Alike, CacheInv, Files, Hits, Opened
<1>8. NewestTwo' /\ Starting' /\ (Calm' <=> Calm)
  BY <1>1, RequestKeepsDirs
<1>9. OnlyCurrent' /\ NoneLeftOver' /\ Early'
  <2>1. ASSUME Calm, NEW d \in Dir
        PROVE  entry'[d] = entry[d] \/ entry'[d] \notin Request
    <3>1. entry[last[Home[r]]] \notin Request
      BY <1>1, <2>1, Running DEF CacheInv, OnlyCurrent
    <3> QED
      BY <1>0, <1>1, <1>2, <3>1, Types, CacheAssumption DEF File
  <2>2. \A f \in Request : file'[f] = file[f] \/ file'[f].mark = "none"
    BY <1>0, <1>3, Types, NoFileType
  <2> QED
    BY <1>1, <1>4, <1>8, <2>1, <2>2, CalmKept DEF worker, Harmful
<1> QED
  BY <1>5, <1>6, <1>7, <1>8, <1>9 DEF CacheInv

(* read(): who goes on to purge did not find a file that is still good.     *)
LEMMA ReadKeeps ==
    ASSUME CacheInv, NEW r \in Request, Read(r)
    PROVE  CacheInv'
<1>0. TypeOK
  BY DEF CacheInv
<1>1. /\ Started /\ at[r] = "read" /\ fd[r] \in File /\ open[r] = 1
      /\ UNCHANGED <<now, dirs, entry, crashes, worker>>
      /\ file' = Linked(file, entry, fd')
  BY <1>0, Types, Running DEF Read, CacheInv, Opened, Closed
<1>2. \/ /\ fd' = [fd EXCEPT ![r] = None] /\ open' = [open EXCEPT ![r] = @ - 1]
         /\ \/ at' = [at EXCEPT ![r] = "over"]
            \/ Expired(r) /\ at' = [at EXCEPT ![r] = "purge"]
      \/ /\ UNCHANGED <<fd, open>>
         /\ \/ Hit(r) /\ at' = [at EXCEPT ![r] = "hit"]
            \/ at' = [at EXCEPT ![r] = "error"]
  BY DEF Read, Closes
<1>3. /\ fd' \in [Request -> File \cup {None}] /\ open' \in [Request -> Nat]
      /\ at' \in [Request -> Place]
      /\ \A q \in Request : q # r => at'[q] = at[q] /\ fd'[q] = fd[q] /\ open'[q] = open[q]
  BY <1>0, <1>1, <1>2, Types DEF Place
<1>4. /\ file' \in [File -> FileRecord]
      /\ \A f \in File : file'[f] = file[f] \/ file'[f] = NoFile
      /\ \A q \in Request : fd'[q] \in File => file'[fd'[q]] = file[fd'[q]]
  BY <1>0, <1>1, <1>3, Types, LinkedKeeps
<1>5. TypeOK'
  BY <1>0, <1>1, <1>3, <1>4, Types, RequestTypes
<1>6. /\ at'[r] \in {"over", "purge", "hit", "error"}
      /\ at'[r] \in {"over", "purge"} => fd'[r] = None /\ open'[r] = 0
      /\ at'[r] \in {"hit", "error"} => fd'[r] = fd[r] /\ open'[r] = 1
  BY <1>0, <1>1, <1>2, Types
<1>7. at'[r] = "hit" => Hit(r)
  BY <1>0, <1>2, Types
<1>8. at'[r] = "purge" => Expired(r)
  BY <1>0, <1>2, Types
<1>9. Closed' /\ Opened'
  <2>1. Closed'
    BY <1>0, <1>1, <1>3, <1>6, Types DEF CacheInv, Closed
  <2>2. Opened'
    BY <1>0, <1>1, <1>3, <1>6, Types DEF CacheInv, Opened, worker
  <2> QED
    BY <2>1, <2>2
<1>10. Files'
  <2>1. at'[r] = "hit" => fd'[r] \in File /\ file[fd'[r]].mark = "finished"
    BY <1>1, <1>6, <1>7 DEF Hit
  <2> QED
    BY <1>0, <1>1, <1>3, <1>4, <1>6, <2>1, Types, FilesKept DEF Alike, CacheInv, Files, Hits, Opened
<1>11. NewestTwo' /\ Starting' /\ (Calm' <=> Calm)
  BY <1>1, RequestKeepsDirs
<1>12. OnlyCurrent' /\ NoneLeftOver' /\ Early'
  <2>1. ASSUME NEW f \in Request, NEW q \in Request, Harmful(q, f)', file[f].expire >= now
        PROVE  Harmful(q, f)
    <3>1. CASE q # r
      BY <1>3, <2>1, <3>1 DEF Harmful
    <3>2. CASE q = r
      <4>1. Expired(r)
        BY <1>6, <1>8, <2>1, <3>2 DEF Harmful
      <4>2. fd[r] # f
        BY <1>0, <1>1, <2>1, <4>1, Types DEF Expired, TypeOK, FileRecord
      <4> QED
        BY <1>1, <3>2, <4>2 DEF Harmful
    <3> QED
      BY <3>1, <3>2
  <2>2. \A f \in Request : file'[f] = file[f] \/ file'[f].mark = "none"
    BY <1>0, <1>4, Types, NoFileType
  <2>3. \A f \in Request : at[f] = "store" => at'[f] = "store"
    BY <1>1, <1>3
  <2> QED
    BY <1>1, <1>11, <2>1, <2>2, <2>3, CalmKept DEF worker
<1> QED
  BY <1>5, <1>9, <1>10, <1>11, <1>12 DEF CacheInv
(* unlinkat() after a file was found to be expired.                         *)
LEMMA PurgeKeeps ==
    ASSUME CacheInv, NEW r \in Request, Purge(r)
    PROVE  CacheInv'
<1>0. TypeOK
  BY DEF CacheInv
<1>1. /\ Started /\ at[r] = "purge"
      /\ UNCHANGED <<now, dirs, fd, open, crashes, worker>>
      /\ at' = [at EXCEPT ![r] = "miss"]
      /\ entry' = [entry EXCEPT ![cur[Home[r]]] = None]
      /\ file' = Linked(file, entry', fd)
  BY Running DEF Purge, Unlink
<1>2. /\ file' \in [File -> FileRecord]
      /\ \A f \in File : file'[f] = file[f] \/ file'[f] = NoFile
      /\ \A q \in Request : fd'[q] \in File => file'[fd'[q]] = file[fd'[q]]
  BY <1>0, <1>1, Types, LinkedKeeps
<1>3. at'[r] = "miss" /\ \A q \in Request : q # r => at'[q] = at[q]
  BY <1>0, <1>1, Types
<1>4. TypeOK'
  <2>1. entry' \in [Dir -> File \cup {None}] /\ at' \in [Request -> Place]
    BY <1>0, <1>1, Types DEF Place
  <2> QED
    BY <1>0, <1>1, <1>2, <2>1, Types, RequestTypes
<1>5. Closed' /\ Opened'
  BY <1>0, <1>1, <1>3, Types DEF CacheInv, Closed, Opened, worker
<1>6. Files'
  BY <1>0, <1>1, <1>2, <1>3, Types, FilesKept DEF Alike, CacheInv, Files, Hits, Opened
<1>7. NewestTwo' /\ Starting' /\ (Calm' <=> Calm)
  BY <1>1, RequestKeepsDirs
<1>8. OnlyCurrent' /\ NoneLeftOver' /\ Early'
  <2>1. \A d \in Dir : entry'[d] = entry[d] \/ entry'[d] \notin Request
    BY <1>0, <1>1, Types
  <2>2. \A f \in Request : file'[f] = file[f] \/ file'[f].mark = "none"
    BY <1>0, <1>2, Types, NoFileType
  <2> QED
    BY <1>1, <1>3, <1>7, <2>1, <2>2, CalmKept DEF worker, Harmful
<1> QED
  BY <1>4, <1>5, <1>6, <1>7, <1>8 DEF CacheInv

(* Ignore, WriteFails and End                                              *)
LEMMA AbortKeeps ==
    ASSUME CacheInv, NEW r \in Request, Abort(r), at[r] # "new"
    PROVE  CacheInv'
<1>0. TypeOK
  BY DEF CacheInv
<1>1. /\ Started
      /\ UNCHANGED <<now, dirs, crashes, worker>>
      /\ at' = [at EXCEPT ![r] = "over"]
      /\ file' = Linked(file, entry', fd')
  BY Running DEF Abort
<1>2. /\ entry' = entry \/ entry' = [entry EXCEPT ![cur[Home[r]]] = None]
      /\ at[r] = "store" => entry' = [entry EXCEPT ![cur[Home[r]]] = None]
  BY DEF Abort, Unlink
<1>3. /\ fd' \in [Request -> File \cup {None}] /\ open' \in [Request -> Nat]
      /\ fd'[r] = None /\ open'[r] = 0
      /\ \A q \in Request : q # r => fd'[q] = fd[q] /\ open'[q] = open[q]
  <2>1. CASE fd[r] # None
    BY <1>0, <2>1, Types DEF Abort, Closes, CacheInv, Closed
  <2>2. CASE fd[r] = None
    BY <1>0, <2>2, Types DEF Abort, CacheInv, Closed
  <2> QED
    BY <2>1, <2>2
<1>4. /\ file' \in [File -> FileRecord]
      /\ \A f \in File : file'[f] = file[f] \/ file'[f] = NoFile
      /\ \A q \in Request : fd'[q] \in File => file'[fd'[q]] = file[fd'[q]]
  BY <1>0, <1>1, <1>3, Types, LinkedKeeps
<1>5. at'[r] = "over" /\ \A q \in Request : q # r => at'[q] = at[q]
  BY <1>0, <1>1, Types
<1>6. TypeOK'
  <2>1. entry' \in [Dir -> File \cup {None}] /\ at' \in [Request -> Place]
    BY <1>0, <1>1, <1>2, Types DEF Place
  <2> QED
    BY <1>0, <1>1, <1>3, <1>4, <2>1, Types, RequestTypes
<1>7. Closed' /\ Opened'
  <2>1. Closed'
    BY <1>0, <1>3, <1>5, Types DEF CacheInv, Closed
  <2>2. Opened'
    BY <1>0, <1>1, <1>3, <1>5, Types DEF CacheInv, Opened, worker
  <2> QED
    BY <2>1, <2>2
<1>8. Files'
  BY <1>0, <1>3, <1>4, <1>5, Types, FilesKept DEF Alike, CacheInv, Files, Hits, Opened
<1>9. NewestTwo' /\ Starting' /\ (Calm' <=> Calm)
  BY <1>1, RequestKeepsDirs
<1>10. OnlyCurrent' /\ NoneLeftOver' /\ Early'
  <2>1. \A d \in Dir : entry'[d] = entry[d] \/ entry'[d] \notin Request
    BY <1>0, <1>2, Types
  <2>2. \A f \in Request : file'[f] = file[f] \/ file'[f].mark = "none"
    BY <1>0, <1>4, Types, NoFileType
  <2>3. ASSUME Calm, at[r] = "store", NEW d \in Dir
        PROVE  entry'[d] # r
    <3>1. cur[Home[r]] = boot.cur /\ cur[Home[r]] \in Dir
      BY <1>1, <2>3, Running
    <3>2. entry[d] = r => d = cur[Home[r]]
      BY <2>3, <3>1 DEF CacheInv, OnlyCurrent
    <3> QED
      BY <1>0, <1>2, <2>3, <3>1, <3>2, Types
  <2>4. \A f \in Request, q \in Request : Harmful(q, f)' => Harmful(q, f)
    BY <1>3, <1>5 DEF Harmful
  <2> QED
    BY <1>1, <1>5, <1>9, <2>1, <2>2, <2>3, <2>4, CalmKept DEF worker
<1> QED
  BY <1>6, <1>7, <1>8, <1>9, <1>10 DEF CacheInv
(* A new file, by its fields.                                              *)
LEMMA NewFile ==
    ASSUME NEW time, NEW part, NEW new,
           new = [NoFile EXCEPT !.mark = "writing", !.expire = time, !.failed = part]
    PROVE  new = [mark |-> "writing", expire |-> time, data |-> <<>>,
                  failed |-> part, blind |-> {}]
BY DEF NoFile

(* They are those of a file.                                                *)
LEMMA NewFileType ==
    ASSUME NEW time \in Nat, NEW part \in BOOLEAN,
           NEW new, new = [mark |-> "writing", expire |-> time, data |-> <<>>,
                           failed |-> part, blind |-> {}]
    PROVE  new \in FileRecord /\ new.mark = "writing" /\ new.data = <<>>
BY DEF FileRecord

(* open(O_EXCL): the name was free.                                         *)
LEMMA CreateKeeps ==
    ASSUME CacheInv, NEW r \in Request, Create(r)
    PROVE  CacheInv'
<1>0. TypeOK
  BY DEF CacheInv
<1>1. /\ Started /\ at[r] = "miss" /\ cur[Home[r]] \in Dir
      /\ fd[r] = None /\ open[r] = 0
      /\ UNCHANGED <<now, dirs, crashes, worker>>
      /\ entry[cur[Home[r]]] = None
      /\ entry' = [entry EXCEPT ![cur[Home[r]]] = r]
      /\ fd' = [fd EXCEPT ![r] = r] /\ open' = [open EXCEPT ![r] = @ + 1]
      /\ at' = [at EXCEPT ![r] = "store"]
  BY Running DEF Create, CacheInv, Closed
<1>2. PICK age \in Age, part \in BOOLEAN :
         file' = [file EXCEPT ![r] = [NoFile EXCEPT !.mark = "writing", !.expire = now + age,
                                                   !.failed = part]]
  BY DEF Create
<1>3. /\ file' \in [File -> FileRecord]
      /\ \A f \in File : f # r => file'[f] = file[f]
      /\ file'[r].mark = "writing" /\ file'[r].data = <<>>
  <2>. DEFINE new == [NoFile EXCEPT !.mark = "writing", !.expire = now + age, !.failed = part]
  <2>1. now + age \in Nat
    BY <1>0, CacheAssumption DEF TypeOK
  <2>2. /\ new \in FileRecord /\ new.mark = "writing" /\ new.data = <<>>
    <3>1. new = [mark |-> "writing", expire |-> now + age, data |-> <<>>,
                 failed |-> part, blind |-> {}]
      BY NewFile
    <3> QED
      BY <2>1, <3>1, NewFileType
  <2> HIDE DEF new
  <2>3. file' = [file EXCEPT ![r] = new]
    BY <1>2 DEF new
  <2> QED
    BY <1>0, <2>2, <2>3, Types
<1>4. /\ at'[r] = "store" /\ fd'[r] = r /\ open'[r] = 1
      /\ \A q \in Request : q # r => at'[q] = at[q] /\ fd'[q] = fd[q] /\ open'[q] = open[q]
  BY <1>0, <1>1, Types
<1>5. TypeOK'
  <2>1. /\ entry' \in [Dir -> File \cup {None}] /\ at' \in [Request -> Place]
        /\ fd' \in [Request -> File \cup {None}] /\ open' \in [Request -> Nat]
    BY <1>0, <1>1, Types DEF Place
  <2> QED
    BY <1>0, <1>1, <1>3, <2>1, Types, RequestTypes
<1>6. Closed' /\ Opened'
  <2>1. Closed'
    BY <1>0, <1>4, Types DEF CacheInv, Closed
  <2>2. Opened'
    BY <1>0, <1>1, <1>4, Types DEF CacheInv, Opened, worker
  <2> QED
    BY <2>1, <2>2
<1>7. Files'
  <2>1. Stores'
    <3>1. ASSUME NEW q \in Request, at'[q] = "store", q # r
          PROVE  at[q] = "store" /\ fd'[q] = fd[q] /\ file'[q] = file[q]
      BY <1>0, <1>3, <1>4, <3>1, Types
    <3>2. Len(file'[r].data) = 0
      BY <1>3
    <3> QED
      BY <1>3, <1>4, <3>1, <3>2, CacheAssumption DEF CacheInv, Files, Stores
  <2>2. Hits'
    <3> SUFFICES ASSUME NEW q \in Request, at'[q] = "hit"
                 PROVE  file'[fd'[q]].mark = "finished"
      BY DEF Hits
    <3>1. at[q] = "hit" /\ fd'[q] = fd[q] /\ fd[q] \in File
      BY <1>0, <1>4, Types DEF CacheInv, Opened
    <3>2. file[fd[q]].mark = "finished"
      BY <3>1 DEF CacheInv, Files, Hits
    <3>3. fd[q] # r
      BY <1>1, <3>2 DEF CacheInv, Files, Finishes
    <3> QED
      BY <1>3, <3>1, <3>2, <3>3
  <2>3. Finishes'
    <3>1. \A f \in File : file'[f].mark = "finished" => file'[f] = file[f] /\ f # r
      BY <1>3
    <3> QED
      BY <1>0, <1>4, <3>1, Types DEF CacheInv, Files, Finishes, Whole
  <2> QED
    BY <2>1, <2>2, <2>3 DEF Files
<1>8. NewestTwo' /\ Starting' /\ (Calm' <=> Calm)
  BY <1>1, RequestKeepsDirs
<1>9. ASSUME Calm, NEW d \in Dir
      PROVE  entry'[d] = IF d = boot.cur THEN r ELSE entry[d]
  BY <1>0, <1>1, <1>9, Running, Types
<1>10. boot' = boot
  BY <1>1 DEF worker
<1>11. OnlyCurrent'
  BY <1>8, <1>9, <1>10 DEF CacheInv, OnlyCurrent
<1>12. NoneLeftOver'
  <2> SUFFICES ASSUME Calm, NEW d \in Dir, entry'[d] \in Request,
                      file'[entry'[d]].mark = "writing"
               PROVE  at'[entry'[d]] = "store"
    BY <1>8 DEF NoneLeftOver
  <2>1. CASE entry'[d] = r
    BY <1>4, <2>1
  <2>2. CASE entry'[d] # r
    <3>1. entry'[d] = entry[d]
      BY <1>9, <2>2
    <3>2. file'[entry[d]] = file[entry[d]] /\ entry[d] # r
      BY <1>0, <1>3, <2>2, <3>1, Types
    <3>3. at[entry[d]] = "store"
      BY <3>1, <3>2 DEF CacheInv, NoneLeftOver
    <3> QED
      BY <1>4, <3>1, <3>2, <3>3
  <2> QED
    BY <2>1, <2>2
<1>13. Early'
  <2> SUFFICES ASSUME Calm, NEW f \in Request, NEW d \in Dir, entry'[d] = f,
                      file'[f].mark = "finished", file'[f].expire >= now',
                      NEW q \in Request, Harmful(q, f)'
               PROVE  q \in file'[f].blind
    BY <1>8 DEF Early
  <2>1. f # r /\ entry[d] = f /\ file'[f] = file[f] /\ now' = now
    BY <1>0, <1>1, <1>3, <1>9, Types
  <2>2. Harmful(q, f)
    BY <1>1, <1>4, <2>1 DEF Harmful
  <2> QED
    BY <2>1, <2>2 DEF CacheInv, Early
<1> QED
  BY <1>5, <1>6, <1>7, <1>8, <1>11, <1>12, <1>13 DEF CacheInv
(* What finishing leaves of a file.                                         *)
LEMMA FinishedFile ==
    ASSUME NEW f \in FileRecord, NEW r \in Request, NEW new \in Finished(f, r)
    PROVE  /\ new \in FileRecord
           /\ new.data = f.data
           /\ new.expire = f.expire /\ new.failed = f.failed
           /\ \/ new.mark = "unmarked"
              \/ /\ new.mark = "finished"
                 /\ new.blind = {q \in Request \ {r} : at[q] \in Inside \cup {"miss", "store"}}
BY DEF Finished, FileRecord

(* What a piece of the body does to a file: it is written to, or finished. *)
LEMMA StoreKeeps ==
    ASSUME CacheInv, NEW r \in Request, at[r] = "store", Started,
           UNCHANGED <<now, dirs, entry, fd, open, crashes, worker>>,
           NEW new \in FileRecord, file' = [file EXCEPT ![r] = new],
           \/ /\ at' = at /\ new.mark = "writing" /\ Len(new.data) < Body
              /\ \A p \in 1 .. Len(new.data) : new.data[p] = r
           \/ /\ at' = [at EXCEPT ![r] = "stored"] /\ new.mark = "finished"
              /\ new.data = [p \in 1 .. Body |-> r] \/ new.failed
              /\ new.blind = {q \in Request \ {r} : at[q] \in Inside \cup {"miss", "store"}}
           \/ at' = [at EXCEPT ![r] = "stored"] /\ new.mark = "unmarked"
    PROVE  CacheInv'
<1>0. TypeOK
  BY DEF CacheInv
<1>1. /\ file'[r] = new /\ file' \in [File -> FileRecord]
      /\ \A f \in File : f # r => file'[f] = file[f]
  BY <1>0, Types
<1>2. /\ \/ at'[r] = "store" /\ new.mark = "writing"
         \/ at'[r] = "stored" /\ new.mark \in {"finished", "unmarked"}
      /\ at' \in [Request -> Place]
      /\ \A q \in Request : q # r => at'[q] = at[q]
  <2>1. CASE at' = at /\ new.mark = "writing"
    BY <1>0, <2>1, Types
  <2>2. CASE at' = [at EXCEPT ![r] = "stored"] /\ new.mark \in {"finished", "unmarked"}
    BY <1>0, <2>2, Types DEF Place
  <2> QED
    BY <2>1, <2>2
<1>3. fd[r] = r /\ file[r].mark = "writing"
  BY DEF CacheInv, Files, Stores
<1>4. TypeOK'
  BY <1>0, <1>1, <1>2, Types, RequestTypes
<1>5. Closed' /\ Opened'
  <2>1. Closed'
    BY <1>2 DEF CacheInv, Closed
  <2>2. Opened'
    BY <1>2 DEF CacheInv, Opened, worker
  <2> QED
    BY <2>1, <2>2
<1>6. Files'
  <2>1. Stores'
    <3>1. ASSUME NEW q \in Request, at'[q] = "store", q # r
          PROVE  at[q] = "store" /\ file'[q] = file[q]
      BY <1>0, <1>1, <1>2, <3>1, Types
    <3> QED
      BY <1>1, <1>2, <1>3, <3>1 DEF CacheInv, Files, Stores
  <2>2. Hits'
    <3> SUFFICES ASSUME NEW q \in Request, at'[q] = "hit"
                 PROVE  file'[fd[q]].mark = "finished"
      BY DEF Hits
    <3>1. at[q] = "hit" /\ fd[q] \in File
      BY <1>0, <1>2, Types DEF CacheInv, Opened
    <3>2. file[fd[q]].mark = "finished"
      BY <3>1 DEF CacheInv, Files, Hits
    <3> QED
      BY <1>1, <1>3, <3>1, <3>2
  <2>3. Finishes'
    <3>1. ASSUME NEW f \in File, file'[f].mark = "finished"
          PROVE  Whole(f)' \/ file'[f].failed
      <4>1. CASE f = r
        BY <1>0, <1>1, <1>2, <3>1, <4>1, Types DEF Whole
      <4>2. CASE f # r
        BY <1>1, <3>1, <4>2 DEF CacheInv, Files, Finishes, Whole
      <4> QED
        BY <4>1, <4>2
    <3>2. \A q \in Request : file'[q].mark = "finished" => at'[q] \in {"stored", "over"}
      BY <1>0, <1>1, <1>2, Types DEF CacheInv, Files, Finishes
    <3> QED
      BY <3>1, <3>2 DEF Finishes
  <2> QED
    BY <2>1, <2>2, <2>3 DEF Files
<1>7. NewestTwo' /\ Starting' /\ (Calm' <=> Calm)
  BY RequestKeepsDirs
<1>8. OnlyCurrent'
  BY <1>7 DEF CacheInv, OnlyCurrent, worker
<1>9. NoneLeftOver'
  <2> SUFFICES ASSUME Calm, NEW d \in Dir, entry[d] \in Request,
                      file'[entry[d]].mark = "writing"
               PROVE  at'[entry[d]] = "store"
    BY <1>7 DEF NoneLeftOver
  <2>1. CASE entry[d] = r
    BY <1>1, <1>2, <2>1
  <2>2. CASE entry[d] # r
    <3>1. file'[entry[d]] = file[entry[d]]
      BY <1>0, <1>1, <2>2, Types
    <3>2. at[entry[d]] = "store"
      BY <3>1 DEF CacheInv, NoneLeftOver
    <3> QED
      BY <1>2, <2>2, <3>2
  <2> QED
    BY <2>1, <2>2
<1>10. Early'
  <2> SUFFICES ASSUME Calm, NEW f \in Request, NEW d \in Dir, entry[d] = f,
                      file'[f].mark = "finished", file'[f].expire >= now,
                      NEW q \in Request, Harmful(q, f)'
               PROVE  q \in file'[f].blind
    BY <1>7 DEF Early
  <2>1. Harmful(q, f)
    BY <1>2 DEF Harmful
  <2>2. CASE f = r
    <3>1. at'[r] = "stored" /\ new.mark = "finished"
      BY <1>1, <1>2, <2>2
    <3>2. q # r
      BY <3>1 DEF Harmful
    <3>3. at[q] \in Inside \cup {"miss", "store"}
      BY <2>1 DEF Harmful, Inside
    <3> QED
      BY <1>1, <2>2, <3>1, <3>2, <3>3
  <2>3. CASE f # r
    <3>1. file'[f] = file[f]
      BY <1>0, <1>1, <2>3, Types
    <3> QED
      BY <2>1, <3>1 DEF CacheInv, Early
  <2> QED
    BY <2>2, <2>3
<1> QED
  BY <1>4, <1>5, <1>6, <1>7, <1>8, <1>9, <1>10 DEF CacheInv

(* A file with one more piece of the body.                                  *)
LEMMA LongerFile ==
    ASSUME NEW old \in FileRecord, NEW r \in File, NEW more, more = [old EXCEPT !.data = Append(@, r)]
    PROVE  more \in FileRecord
<1>1. Append(old.data, r) \in Seq(File)
  BY DEF FileRecord
<1> QED
  BY <1>1 DEF FileRecord

(* phl_file_cache_filter_response_body() writes, and finishes.              *)
LEMMA WriteKeeps ==
    ASSUME CacheInv, NEW r \in Request, Write(r)
    PROVE  CacheInv'
<1>0. TypeOK
  BY DEF CacheInv
<1> DEFINE old == file[r]
<1>longer. PICK more : more = [old EXCEPT !.data = Append(@, r)]
  OBVIOUS
<1>1. /\ Started /\ at[r] = "store" /\ fd[r] = r
      /\ old.mark = "writing" /\ Len(old.data) < Body
      /\ \A p \in 1 .. Len(old.data) : old.data[p] = r
      /\ UNCHANGED <<now, dirs, entry, fd, open, crashes, worker>>
  BY Running DEF Write, CacheInv, Files, Stores
<1>2. /\ old \in FileRecord /\ old.data \in Seq(File) /\ Len(old.data) \in Nat
      /\ r \in File
  <2>1. old \in FileRecord /\ r \in File
    BY <1>0, Types
  <2> QED
    BY <2>1 DEF FileRecord
<1>3. \/ Len(more.data) < Body /\ file' = [file EXCEPT ![r] = more] /\ at' = at
      \/ /\ Len(more.data) >= Body
         /\ \E end \in Finished(more, r) : file' = [file EXCEPT ![r] = end]
         /\ at' = [at EXCEPT ![r] = "stored"]
  BY <1>1, <1>longer DEF Write, Finish
<1> HIDE DEF old
<1>4. /\ more \in FileRecord /\ more.mark = "writing" /\ more.data = Append(old.data, r)
      /\ more.data \in Seq(File) /\ Len(more.data) = Len(old.data) + 1
      /\ \A p \in 1 .. Len(more.data) : more.data[p] = r
  <2>1. more.data = Append(old.data, r) /\ more.mark = "writing"
    BY <1>1, <1>2, <1>longer DEF FileRecord
  <2>2. more \in FileRecord
    BY <1>2, <1>longer, LongerFile
  <2>3. /\ Append(old.data, r) \in Seq(File)
        /\ Len(Append(old.data, r)) = Len(old.data) + 1
        /\ \A p \in 1 .. Len(old.data) + 1 : Append(old.data, r)[p] = r
    BY <1>1, <1>2
  <2> QED
    BY <2>1, <2>2, <2>3
<1>5. CASE /\ Len(more.data) < Body
           /\ file' = [file EXCEPT ![r] = more] /\ at' = at
  BY <1>1, <1>4, <1>5, StoreKeeps
<1>6. CASE /\ Len(more.data) >= Body
           /\ \E end \in Finished(more, r) : file' = [file EXCEPT ![r] = end]
           /\ at' = [at EXCEPT ![r] = "stored"]
  <2>1. more.data = [p \in 1 .. Body |-> r]
    <3>1. Len(more.data) = Body
      BY <1>1, <1>2, <1>4, <1>6, CacheAssumption
    <3> QED
      BY <1>4, <3>1
  <2>2. PICK new \in Finished(more, r) : file' = [file EXCEPT ![r] = new]
    BY <1>6
  <2>3. /\ new \in FileRecord /\ new.data = more.data
        /\ \/ new.mark = "unmarked"
           \/ /\ new.mark = "finished"
              /\ new.blind = {q \in Request \ {r} : at[q] \in Inside \cup {"miss", "store"}}
    BY <1>4, FinishedFile
  <2> QED
    BY <1>1, <1>6, <2>1, <2>2, <2>3, StoreKeeps
<1> QED
  BY <1>3, <1>5, <1>6

(* The content handler fails, and the file is finished all the same.        *)
LEMMA ContentFailsKeeps ==
    ASSUME CacheInv, NEW r \in Request, ContentFails(r)
    PROVE  CacheInv'
<1>0. TypeOK
  BY DEF CacheInv
<1>1. /\ Started /\ at[r] = "store" /\ fd[r] = r
      /\ UNCHANGED <<now, dirs, entry, fd, open, crashes, worker>>
      /\ at' = [at EXCEPT ![r] = "stored"]
  BY Running DEF ContentFails, Finish, CacheInv, Files, Stores
<1>2. PICK cut : cut = [file[r] EXCEPT !.failed = TRUE]
  OBVIOUS
<1>3. cut \in FileRecord /\ cut.failed = TRUE
  <2>1. file[r] \in FileRecord
    BY <1>0, Types
  <2> QED
    BY <1>2, <2>1 DEF FileRecord
<1>4. PICK new \in Finished(cut, r) : file' = [file EXCEPT ![r] = new]
  BY <1>1, <1>2 DEF ContentFails
<1>5. /\ new \in FileRecord /\ new.failed
      /\ \/ new.mark = "unmarked"
         \/ /\ new.mark = "finished"
            /\ new.blind = {q \in Request \ {r} : at[q] \in Inside \cup {"miss", "store"}}
  BY <1>3, FinishedFile
<1> QED
  BY <1>1, <1>4, <1>5, StoreKeeps
(***************************************************************************)
(* Time and crashes                                                        *)
(***************************************************************************)
(* Files expire, and none comes back.                                       *)
LEMMA TickKeeps ==
    ASSUME CacheInv, Tick
    PROVE  CacheInv'
<1>1. /\ Started /\ now' = now + 1 /\ now \in Nat /\ now < MaxTime /\ now' \in Start .. MaxTime
      /\ UNCHANGED <<dirs, entry, file, listed, boot, cur, last, due, at, fd, open, crashes>>
  BY CacheAssumption DEF Tick, CacheInv, TypeOK, worker
<1>2. TypeOK'
  BY <1>1 DEF CacheInv, TypeOK
<1>3. Closed' /\ Opened' /\ Files'
  BY <1>1 DEF CacheInv, Closed, Opened, Files, Stores, Hits, Finishes, Whole
<1>4. NewestTwo' /\ Starting' /\ (Calm' <=> Calm)
  BY <1>1 DEF CacheInv, NewestTwo, Starting, Started, Calm
<1>5. OnlyCurrent' /\ NoneLeftOver'
  BY <1>1, <1>4 DEF CacheInv, OnlyCurrent, NoneLeftOver
<1>6. Early'
  <2> SUFFICES ASSUME Calm, NEW f \in Request, NEW d \in Dir, entry[d] = f,
                      file[f].mark = "finished", file[f].expire >= now',
                      NEW r \in Request, Harmful(r, f)
               PROVE  r \in file[f].blind
    BY <1>1, <1>4 DEF Early, Harmful
  <2>1. file[f].expire \in Nat
    BY Types DEF CacheInv, FileRecord
  <2>2. file[f].expire >= now
    BY <1>1, <2>1
  <2> QED
    BY <2>2 DEF CacheInv, Early
<1> QED
  BY <1>2, <1>3, <1>4, <1>5, <1>6 DEF CacheInv

(* A renewed directory ends the calm.                                       *)
LEMMA RenewKeeps ==
    ASSUME CacheInv, NEW w \in Worker, Renew(w)
    PROVE  CacheInv'
<1>0. /\ TypeOK
      /\ Started /\ Idle(w)
      /\ UNCHANGED <<now, entry, file, listed, boot, at, fd, open, crashes>>
  BY DEF Renew, CacheInv
<1>1. now \in Dir /\ now >= Start /\ now \in Nat
  BY <1>0, CacheAssumption DEF TypeOK, Dir
<1>2. due' \in [Worker -> Nat]
  BY <1>0, <1>1, CacheAssumption DEF Renew, TypeOK
<1>3. \/ /\ dirs' = dirs \cup {now} /\ cur' = [cur EXCEPT ![w] = now]
         /\ last' = [last EXCEPT ![w] = cur[w]]
      \/ UNCHANGED <<dirs, cur, last>>
  BY DEF Renew
<1>4. TypeOK'
  BY <1>0, <1>1, <1>2, <1>3 DEF TypeOK
<1>5. Closed' /\ Files'
  BY <1>0 DEF CacheInv, Closed, Files, Stores, Hits, Finishes, Whole
<1>6. Opened'
  <2> SUFFICES ASSUME NEW r \in Request, at[r] \in {"last", "move"}
               PROVE  last'[Home[r]] # 0
    BY <1>0 DEF CacheInv, Opened
  <2>1. Home[r] # w /\ Home[r] \in Worker
    BY <1>0, CacheAssumption DEF Idle, Inside
  <2> QED
    BY <1>0, <1>3, <2>1 DEF CacheInv, Opened, TypeOK
<1>7. NewestTwo'
  BY <1>0, <1>1, <1>3 DEF CacheInv, NewestTwo
<1>8. /\ boot.last < boot.cur /\ boot.cur <= now /\ boot.cur \in Nat /\ boot.last \in Nat
      /\ \A v \in Worker : cur[v] >= boot.cur /\ cur[v] \in Nat
  BY <1>0, <1>1, CacheAssumption DEF CacheInv, Starting, TypeOK, Dir
<1>9. Starting'
  <2>1. Started' /\ \A v \in Worker : cur'[v] >= boot.cur
    <3>1. boot.cur > 0 /\ now >= boot.cur /\ now > 0
      BY <1>1, <1>8 DEF Dir
    <3>2. \A v \in Worker : cur'[v] = cur[v] \/ cur'[v] = now
      BY <1>0, <1>3 DEF TypeOK
    <3>3. \A v \in Worker : cur'[v] >= boot.cur /\ cur'[v] # 0
      BY <1>1, <1>8, <3>1, <3>2
    <3> QED
      BY <3>3 DEF Started
  <2> QED
    BY <1>0, <1>8, <2>1 DEF CacheInv, Starting
<1>10. Calm' => Calm
  <2>1. CASE UNCHANGED <<dirs, cur, last>>
    BY <1>0, <2>1 DEF Calm
  <2>2. CASE last' = [last EXCEPT ![w] = cur[w]]
    <3>1. last'[w] = cur[w]
      BY <1>0, <2>2 DEF TypeOK
    <3> QED
      BY <1>0, <1>8, <3>1 DEF Calm
  <2> QED
    BY <1>3, <2>1, <2>2
<1>11. OnlyCurrent' /\ NoneLeftOver' /\ Early'
  BY <1>0, <1>10 DEF CacheInv, OnlyCurrent, NoneLeftOver, Early, Harmful
<1> QED
  BY <1>4, <1>5, <1>6, <1>7, <1>9, <1>11 DEF CacheInv

(* A crash ends the calm, too.                                              *)
LEMMA CrashKeeps ==
    ASSUME CacheInv, NEW w \in Worker, Crash(w)
    PROVE  CacheInv'
<1> DEFINE lost == {r \in Request : Home[r] = w /\ at[r] # "new"}
<1>0. TypeOK
  BY DEF CacheInv
<1>1. /\ Started /\ crashes' = crashes + 1 /\ crashes < MaxCrashes
      /\ at' = [r \in Request |-> IF r \in lost THEN "over" ELSE at[r]]
      /\ fd' = [r \in Request |-> IF r \in lost THEN None ELSE fd[r]]
      /\ open' = [r \in Request |-> IF r \in lost THEN 0 ELSE open[r]]
      /\ file' = Linked(file, entry, fd')
      /\ cur' = [cur EXCEPT ![w] = boot.cur] /\ last' = [last EXCEPT ![w] = boot.last]
      /\ due' = [due EXCEPT ![w] = boot.due]
      /\ UNCHANGED <<now, dirs, entry, listed, boot>>
  BY DEF Crash
<1>2. /\ fd' \in [Request -> File \cup {None}] /\ open' \in [Request -> Nat]
      /\ at' \in [Request -> Place]
  BY <1>0, <1>1, Types DEF Place
<1>3. /\ file' \in [File -> FileRecord]
      /\ \A f \in File : file'[f] = file[f] \/ file'[f] = NoFile
      /\ \A q \in Request : fd'[q] \in File => file'[fd'[q]] = file[fd'[q]]
  BY <1>0, <1>1, <1>2, Types, LinkedKeeps
<1>4. \A r \in Request :
        \/ at'[r] = "over" /\ fd'[r] = None /\ open'[r] = 0
        \/ /\ at'[r] = at[r] /\ fd'[r] = fd[r] /\ open'[r] = open[r]
           /\ Home[r] # w \/ at[r] = "new"
  BY <1>1
<1>5. TypeOK'
  <2>1. crashes' \in 0 .. MaxCrashes
    BY <1>0, <1>1, CacheAssumption DEF TypeOK
  <2>2. /\ cur' \in [Worker -> Dir \cup {0}] /\ last' \in [Worker -> Dir \cup {0}]
        /\ due' \in [Worker -> Nat]
    BY <1>0, <1>1 DEF TypeOK
  <2> QED
    BY <1>0, <1>1, <1>2, <1>3, <2>1, <2>2 DEF TypeOK, FileRecord
<1>6. Closed'
  BY <1>0, <1>4, Types DEF CacheInv, Closed
<1>7. Opened'
  <2>1. \A r \in Request : at'[r] \in {"move", "read", "hit", "error", "store"} => fd'[r] # None
    BY <1>4 DEF CacheInv, Opened
  <2>2. \A r \in Request : at'[r] = "last" => fd'[r] = None
    BY <1>4 DEF CacheInv, Opened
  <2>3. ASSUME NEW r \in Request, at'[r] \in {"last", "move"}
        PROVE  last'[Home[r]] # 0
    <3>1. at[r] \in {"last", "move"} /\ Home[r] # w /\ Home[r] \in Worker
      BY <1>4, <2>3, CacheAssumption
    <3> QED
      BY <1>0, <1>1, <3>1 DEF CacheInv, Opened, TypeOK
  <2> QED
    BY <2>1, <2>2, <2>3 DEF Opened
<1>8. Files'
  <2>1. \A q \in Request : at[q] \in {"stored", "over"} => at'[q] \in {"stored", "over"}
    BY <1>4
  <2>2. \A q \in Request : at'[q] = "hit" => at[q] = "hit" /\ fd'[q] = fd[q]
    BY <1>4
  <2>3. \A q \in Request : at'[q] = "store" => at[q] = "store" /\ fd'[q] = fd[q]
    BY <1>4
  <2> QED
    BY <1>0, <1>3, <2>1, <2>2, <2>3, Types, FilesKept DEF Alike, CacheInv, Files, Hits, Opened
<1>9. NewestTwo' /\ Starting'
  <2>1. Started' /\ \A v \in Worker : cur'[v] >= boot.cur
    BY <1>0, <1>1 DEF CacheInv, Starting, Started, TypeOK, Dir
  <2> QED
    BY <1>1, <2>1 DEF CacheInv, NewestTwo, Starting
<1>10. ~Calm'
  BY <1>0, <1>1, CacheAssumption DEF Calm, TypeOK
<1> QED
  BY <1>5, <1>6, <1>7, <1>8, <1>9, <1>10 DEF CacheInv, OnlyCurrent, NoneLeftOver, Early
(* Every step.                                                              *)
LEMMA NextKeeps == CacheInv /\ [Next]_vars => CacheInv'
<1> SUFFICES ASSUME CacheInv, [Next]_vars
             PROVE  CacheInv'
  OBVIOUS
<1>1. ASSUME NEW r \in Request,
             Ignore(r) \/ WriteFails(r) \/ End(r)
      PROVE  CacheInv'
  BY <1>1, AbortKeeps DEF Ignore, WriteFails, End
<1>2. CASE UNCHANGED vars
  <2>1. TypeOK' /\ Closed' /\ Opened'
    BY <1>2 DEF vars, CacheInv, TypeOK, Closed, Opened
  <2>2. Files'
    BY <1>2 DEF vars, CacheInv, Files, Stores, Hits, Finishes, Whole
  <2>3. NewestTwo' /\ Starting' /\ (Calm' <=> Calm)
    BY <1>2 DEF vars, CacheInv, NewestTwo, Starting, Started, Calm
  <2>4. OnlyCurrent' /\ NoneLeftOver' /\ Early'
    BY <1>2, <2>3 DEF vars, CacheInv, OnlyCurrent, NoneLeftOver, Early, Harmful
  <2> QED
    BY <2>1, <2>2, <2>3, <2>4 DEF CacheInv
<1> QED
  BY <1>1, <1>2, LookUpKeeps, LookUpLastKeeps, MoveKeeps, ReadKeeps, PurgeKeeps, CreateKeeps,
     WriteKeeps, ContentFailsKeeps, RenewKeeps, CrashKeeps, TickKeeps, ScanKeeps, BootKeeps
  DEF Next

(* CacheInv is an invariant.                                                *)
LEMMA Invariance == Spec => []CacheInv
BY InitInv, NextKeeps, PTL DEF Spec

(***************************************************************************)
(* The theorems                                                            *)
(***************************************************************************)
(* No request leaks or shares a descriptor (phl_file_cache_ctx_free()),    *)
(* whatever way it takes.                                                  *)
THEOREM DescriptorsCorrect == Spec => []Descriptors
<1>1. CacheInv => Descriptors
  BY DEF CacheInv, Descriptors, OneWriter, Files, Stores
<1> QED
  BY <1>1, Invariance, PTL

(* A hit reads a file whose body was written completely, by one request,   *)
(* unless the content handler of the response failed, or a part of the     *)
(* headers only was written.                                               *)
THEOREM HitsCorrect == Spec => []HitsWhole
<1>1. CacheInv => HitsWhole
  BY Types DEF CacheInv, HitsWhole, Files, Hits, Finishes, Opened
<1> QED
  BY <1>1, Invariance, PTL

(* phl_file_cache_conf_post() finds the newest two directories in any      *)
(* number of them, in any order.                                           *)
THEOREM ScanCorrect == Spec => []NewestTwo
<1>1. CacheInv => NewestTwo
  BY DEF CacheInv
<1> QED
  BY <1>1, Invariance, PTL

(* No unfinished file keeps the key out of the cache for longer than its   *)
(* request writes it, unless writing its mark failed.                      *)
THEOREM NoneLeftOverHolds == Spec => []NoneLeftOver
<1>1. CacheInv => NoneLeftOver
  BY DEF CacheInv
<1> QED
  BY <1>1, Invariance, PTL

(* A finished file is removed before its time only by a request that was   *)
(* on its way when it was finished, or could not open it.                  *)
LEMMA StepKeeps ==
    ASSUME CacheInv, [Next]_vars, Calm, NEW f \in Request, NEW d \in Dir,
           entry[d] = f, file[f].mark = "finished", file[f].expire >= now,
           \A e \in Dir : entry'[e] # f
    PROVE  \E r \in file[f].blind :
                at[r] \in {"move", "purge", "miss", "store"} /\ at'[r] # at[r]
<1>1. \A r \in Request : Harmful(r, f) => r \in file[f].blind
  BY DEF CacheInv, Early
<1>2. SUFFICES \E r \in Request : at[r] \in {"move", "purge", "miss", "store"} /\ at'[r] # at[r]
  BY <1>1 DEF Harmful
<1>3. entry' # entry
  OBVIOUS
<1>4. at \in [Request -> Place]
  BY Types DEF CacheInv
<1>5. ASSUME NEW r \in Request, Abort(r)
      PROVE  at[r] \in {"miss", "store"} /\ at'[r] # at[r]
  BY <1>3, <1>4, <1>5 DEF Abort
<1>6. ASSUME NEW r \in Request, Create(r)
      PROVE  at[r] = "miss" /\ at'[r] # at[r]
  BY <1>4, <1>6 DEF Create
<1>7. ASSUME NEW r \in Request, Move(r) \/ Purge(r)
      PROVE  at[r] \in {"move", "purge"} /\ at'[r] # at[r]
  BY <1>4, <1>7 DEF Move, Purge
<1>8. \E r \in Request : Abort(r) \/ Create(r) \/ Move(r) \/ Purge(r)
  BY <1>3 DEF Next, vars, LookUp, LookUpLast, Read, Write, ContentFails, Renew, Crash, Tick,
              Scan, Boot, Ignore, WriteFails, End
<1> QED
  BY <1>5, <1>6, <1>7, <1>8

(* So a later request never removes what is stored and still good, unless  *)
(* openat() failed for it.                                                 *)
THEOREM KeptHolds == Spec => Kept
<1>1. CacheInv /\ [Next]_vars =>
        [\A f \in Request : \A d \in Dir :
          (/\ Calm /\ entry[d] = f /\ file[f].mark = "finished" /\ file[f].expire >= now
           /\ \A e \in Dir : entry'[e] # f)
          => \E r \in file[f].blind : at[r] \in {"move", "purge", "miss", "store"} /\ at'[r] # at[r]]_vars
  BY StepKeeps
<1> QED
  BY <1>1, Invariance, PTL DEF Spec, Kept
===============================================================================
