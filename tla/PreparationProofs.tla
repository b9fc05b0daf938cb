--------------------------- MODULE PreparationProofs ---------------------------
(***************************************************************************)
(* What a preparation publishes and answers, for any number of members,    *)
(* blocks and changes of the source.  IInv strengthens the two properties  *)
(* to an invariant that every step keeps.  Its heart: the contents of the  *)
(* source only grow, so that a digest taken first and found again at the   *)
(* end (Digested, Bytes) leaves one version for all that was copied in     *)
(* between (Sealed); and the rows of the directory are those of the        *)
(* members before the one that is being inserted (Rows), whichever thread  *)
(* is ahead.                                                               *)
(***************************************************************************)
EXTENDS Preparation, FiniteSetTheorems, TLAPS

\* The types of the variables.
JobType == [kind : Kinds, bound : BOOLEAN, classes : Layouts]
Stamps == 0..(MaxVersion + 1)
FileType == [content : Versions, stamp : Stamps, apart : BOOLEAN]
MainType == [pc : Places, m : 1..(Last + 1), next : 1..(Last + 1), left : 0..Blocks,
             before : {None} \cup Stamps, digest : {None} \cup Versions,
             out : {None, "ok", "error"}]
Handed == {Over, Broken} \cup Versions
Queues == {<<>>} \cup {<<v>> : v \in Handed}
FeedType == [pc : {"none", "read", "put", "ended"}, left : 0..Blocks, hold : {None} \cup Handed,
             queue : Queues, stop : BOOLEAN]
OwnType == [job : {None} \cup Members, rows : [Names -> {None} \cup Members],
            dups : SUBSET Names, failed : BOOLEAN]
DiskType == [owners : {"none", "pending", "published"}, json : {"none", "part", "whole"}]

\* TypeOK, by these names.
Typed ==
    /\ job \in JobType /\ file \in [Members -> FileType] /\ main \in MainType
    /\ feed \in [Members -> FeedType] /\ own \in OwnType /\ got \in [Members -> SUBSET Versions]
    /\ disk \in DiskType

\* A change may leave the time stamp of a path behind its content, but for a
\* replacement never before it.
Stamped ==
    \A m \in Members :
        file[m].stamp <= file[m].content + 1 /\ (~file[m].apart => file[m].stamp <= file[m].content)

\* Where the main thread can be with the three kinds of input.
Placed ==
    /\ job.kind = "artifact" =>
        /\ ~job.bound /\ main.m = 1 /\ disk.owners = "none"
        /\ main.pc \in {"enter", "open", "read", "rehash", "reverify", "unwind", "error", "done", "dead"}
    /\ job.kind = "container" => main.pc \notin {"stat", "read"}
    /\ job.kind = "set" =>
        main.pc \notin {"open", "hash", "advance", "copy", "join", "verify", "rehash", "reverify"}
    /\ main.pc \in {"enter", "open", "hash"} => main.m = 1
    /\ main.pc = "hash" => ~job.bound
    /\ main.pc \in {"stat", "read", "copy", "accept", "close", "join"} => main.m <= Last
    /\ job.kind = "container" /\ main.pc \in {"verify", "rehash", "reverify"} => main.m = Last + 1
    /\ main.pc \in {"exit", "publish", "answer", "json"} => main.m = Last + 1

\* The digest of a container is of a version its file had already reached.
Digested ==
    /\ job.kind = "container"
          /\ main.pc \notin {"enter", "open", "hash", "unwind", "error", "done", "dead"} =>
        main.digest # None
    /\ main.pc \in {"enter", "open", "hash"} => main.digest = None
    /\ job.kind = "container" /\ job.bound => main.digest \in {None, 0}
    /\ main.digest # None => main.digest <= file[1].content

\* v is a version from the digest's to the one the file has now.
Between(v) == main.digest # None /\ main.digest <= v /\ v <= file[1].content

\* The bytes of a container, copied or still with a producer, were read after
\* the digest.
Bytes ==
    job.kind = "container" => \A m \in Members :
        /\ \A v \in got[m] : Between(v)
        /\ feed[m].pc # "none" => main.digest # None
        /\ feed[m].hold \in Versions => Between(feed[m].hold)
        /\ \A v \in Versions : feed[m].queue = <<v>> => Between(v)

\* A producer that puts has something to put.
Handing == \A m \in Members : feed[m].pc = "put" => feed[m].hold \in {Over, Broken} \cup Versions

\* The signature of member m has been checked.
Passed(m) == m < main.m \/ (m = main.m /\ main.pc \in {"accept", "close", "join"})

\* The bytes are all of one version.
OneVersion(S) == \E v \in Versions : S = {v}

\* What the signature, or the comparison with the source, has established.
Single ==
    /\ job.kind # "artifact" => \A m \in Members : Passed(m) => OneVersion(got[m])
    /\ job.kind = "artifact" /\ main.pc = "reverify" => OneVersion(got[1])

\* After the second digest every byte is of the version of the first.
Sealed ==
    job.kind = "container" /\ main.pc \in {"reverify", "exit", "publish", "answer", "json"} =>
        \A m \in Members : got[m] = {main.digest}

\* The members whose names were handed to the thread of the directory are
\* 1..Accepted; those of 1..Inserted are in its rows.
Accepted == IF main.pc \in {"close", "join"} THEN main.m ELSE main.m - 1
Inserted == IF own.job = None THEN Accepted ELSE Accepted - 1

\* The rows name the first owner among the members 1..k of every class.
Indexed(rows, k) ==
    \A n \in Names :
        /\ rows[n] = None <=> \A j \in 1..k : n \notin job.classes[j]
        /\ rows[n] # None =>
            /\ rows[n] \in 1..k /\ n \in job.classes[rows[n]]
            /\ \A j \in 1..(rows[n] - 1) : n \notin job.classes[j]

\* A class of two of the members 1..k is among the duplicates.
Unique(k) ==
    \A i, j \in 1..k : i # j => job.classes[i] \cap job.classes[j] \subseteq own.dups

\* The thread of the directory is at most one member behind the main thread.
Rows ==
    main.pc # "dead" =>
        /\ own.job # None => own.job = Accepted
        /\ Indexed(own.rows, Inserted)
        /\ own.failed \/ Unique(Inserted)

\* No class has two owners.
Disjoint == \A m, k \in Members : m # k => job.classes[m] \cap job.classes[k] = {}

\* What holds from the last join on, and where the files and the answer come
\* from.
Done ==
    /\ main.pc \in {"publish", "answer", "json"} => own.job = None /\ ~own.failed
    /\ main.pc \in {"answer", "json"} => disk.owners = "published"
    /\ main.pc = "json" => Disjoint /\ (job.bound => \A m \in Members : got[m] = {0})
    /\ disk.owners = "published" =>
        main.pc \in {"answer", "json", "error", "done", "dead"} /\ own.job = None
    /\ main.out = "ok" => main.pc = "done"

\* PublishedWhole, in terms of the rows.
Whole ==
    disk.owners = "published" =>
        /\ Indexed(own.rows, Last)
        /\ \A m \in Members : /\ OneVersion(got[m])
                              /\ job.kind = "container" => got[m] = {main.digest}

\* ReadySound, without a cardinality.
Sound ==
    main.out = "ok" =>
        /\ job.kind # "artifact" => disk.owners = "published" /\ disk.json = "whole" /\ Disjoint
        /\ job.kind = "artifact" => OneVersion(got[1])
        /\ job.bound => \A m \in Members : got[m] = {0}

\* The inductive invariant.
IInv ==
    /\ Typed /\ Stamped /\ Placed /\ Digested /\ Bytes /\ Handing /\ Single /\ Sealed /\ Rows
    /\ Done
    /\ Whole /\ Sound

-----------------------------------------------------------------------------

\* Each part of the invariant stays when the variables it is about do.
LEMMA RowsStay ==
    ASSUME IInv, main'.pc # "dead" => main.pc # "dead", own' = own, job' = job, Accepted' = Accepted
    PROVE  Rows'
PROOF BY DEF IInv, Rows, Inserted, Indexed, Unique

\* No producer begins to put.
LEMMA HandingStays ==
    ASSUME IInv, \A m \in Members :
              feed'[m].pc = "put" => feed[m].pc = "put" /\ feed'[m].hold = feed[m].hold
    PROVE  Handing'
PROOF BY DEF IInv, Handing

\* Nothing is read, and no queue moves.
LEMMA BytesStay ==
    ASSUME IInv, job' = job, got' = got, feed' = feed, main'.digest = main.digest,
           file' = file
    PROVE  Bytes'
PROOF BY DEF IInv, Bytes, Between, Versions

\* Blocks are dropped, and nothing else happens to them.
LEMMA BytesKept ==
    ASSUME IInv, job' = job, file' = file, got' = got, main'.digest = main.digest,
           job.kind = "container" => \A m \in Members :
              /\ feed'[m].pc # "none" => feed[m].pc # "none" \/ main.digest # None
              /\ feed'[m].hold = feed[m].hold \/ feed'[m].hold \notin Versions
              /\ feed'[m].queue = feed[m].queue \/ feed'[m].queue = <<>>
    PROVE  Bytes'
PROOF BY DEF IInv, Bytes, Between, Versions

\* Blocks are read, handed over or copied, or the source grows.
LEMMA BytesGrow ==
    ASSUME IInv, job' = job, main'.digest = main.digest,
           file[1].content \in Int, file'[1].content \in Int, file[1].content <= file'[1].content,
           job.kind = "container" => \A m \in Members :
              /\ \A v \in got'[m] : v \in got[m] \/ Between(v)
              /\ feed'[m].pc # "none" => feed[m].pc # "none"
              /\ feed'[m].hold \in Versions => feed'[m].hold = feed[m].hold \/ Between(feed'[m].hold)
              /\ \A v \in Versions : feed'[m].queue = <<v>> => feed[m].queue = <<v>> \/ Between(v),
           \A m \in Members : got'[m] \subseteq Versions,
           main.digest \in {None} \cup Versions
    PROVE  Bytes'
PROOF
<1>1. \A v \in Versions : Between(v) => Between(v)' BY DEF Between, Versions
<1>2. \A v : Between(v) => main.digest # None BY DEF Between
<1> QED BY <1>1, <1>2 DEF IInv, Bytes, Versions

\* The bytes of the members that were checked are left alone.
LEMMA SingleStays ==
    ASSUME IInv, job' = job, main'.pc # "reverify",
           job.kind # "artifact" => \A m \in Members : Passed(m)' =>
                (Passed(m) /\ got'[m] = got[m]) \/ OneVersion(got'[m])
    PROVE  Single'
PROOF BY DEF IInv, Single

\* Nothing is published, and what was keeps its rows and bytes.
LEMMA WholeStays ==
    ASSUME IInv, UNCHANGED <<job, got>>, own'.rows = own.rows, main'.digest = main.digest,
           disk'.owners = "published" => disk.owners = "published"
    PROVE  Whole'
PROOF BY DEF IInv, Whole, Indexed

\* No answer is given.
LEMMA SoundStays ==
    ASSUME IInv, UNCHANGED <<job, got, disk>>, main'.out = "ok" => main.out = "ok"
    PROVE  Sound'
PROOF BY DEF IInv, Sound, Disjoint

\* The member the main thread is at.
LEMMA MineTyped ==
    ASSUME IInv, main.m <= Last
    PROVE  /\ main.m \in Members /\ 1 \in Members /\ File(main.m) \in Members
           /\ file[File(main.m)] \in FileType /\ feed[main.m] \in FeedType
PROOF
  BY PreparationAssumption DEF IInv, Typed, MainType, Members, File, PreparationAssumption

\* The first file is always there.
LEMMA FirstTyped ==
    ASSUME IInv
    PROVE  1 \in Members /\ file[1] \in FileType
PROOF BY PreparationAssumption DEF IInv, Typed, Members, PreparationAssumption

\* What the comparison of a signature shows.
LEMMA Singleton ==
    ASSUME NEW S \in SUBSET Versions, Cardinality(S) = 1
    PROVE  OneVersion(S)
PROOF
<1>1. IsFiniteSet(0..MaxVersion)
  BY PreparationAssumption, FS_Interval DEF PreparationAssumption
<1>2. IsFiniteSet(S) BY <1>1, FS_Subset DEF Versions
<1> QED BY <1>2, FS_Singleton DEF OneVersion

\* One lemma for every action of the main thread follows.
LEMMA EnterKeeps ==
    ASSUME IInv, Enter
    PROVE  IInv'
PROOF
<1> DEFINE r == [main EXCEPT !.pc = IF job.kind = "set" THEN "stat" ELSE "open"]
<1>0. main.m = 1 BY DEF IInv, Placed, Enter, At
<1>1. /\ main' = r /\ main.pc = "enter"
      /\ disk' = [disk EXCEPT !.owners = IF job.kind = "artifact" THEN @ ELSE "pending"]
      /\ UNCHANGED <<job, file, feed, own, got>>
  BY <1>0 DEF Enter, At, Goto
<1>2. Typed /\ Placed /\ main \in MainType BY DEF IInv, Typed
<1>3. r \in MainType /\ r.pc = (IF job.kind = "set" THEN "stat" ELSE "open")
      /\ r.m = main.m /\ r.digest = main.digest /\ r.out = main.out
  BY <1>0, <1>1, <1>2 DEF MainType, Places, Placed
<1> HIDE DEF r
<1>4. Typed' BY <1>0, <1>1, <1>2, <1>3 DEF Typed, DiskType
<1>5. Stamped' BY <1>0, <1>1, <1>3 DEF IInv, Stamped, Typed, Members
<1>6. Placed' BY <1>0, <1>1, <1>2, <1>3, PreparationAssumption
  DEF Placed, Typed, DiskType, PreparationAssumption
<1>7. Digested' BY <1>0, <1>1, <1>3 DEF IInv, Digested, Placed
<1>8. Bytes' BY <1>1, <1>3, BytesStay
<1>9. Handing' BY <1>1 DEF IInv, Handing
<1>10. Single' BY <1>0, <1>1, <1>3 DEF IInv, Single, Passed
<1>11. Sealed' BY <1>0, <1>1, <1>3 DEF IInv, Sealed, Placed
<1>12. Rows'
  BY <1>1, <1>2, <1>3, RowsStay, PreparationAssumption DEF Accepted, MainType,
     PreparationAssumption
<1>13. Done' BY <1>0, <1>1, <1>3 DEF IInv, Done, Placed
<1>14. Whole' BY <1>1, <1>3, WholeStays DEF IInv, Typed, DiskType
<1>15. Sound' BY <1>0, <1>1, <1>3 DEF IInv, Sound, Done, Placed
<1> QED
  BY <1>4, <1>5, <1>6, <1>7, <1>8, <1>9, <1>10, <1>11, <1>12, <1>13, <1>14, <1>15 DEF IInv

LEMMA OpenKeeps ==
    ASSUME IInv, Open
    PROVE  IInv'
PROOF
<1> DEFINE r == [main EXCEPT
            !.pc = IF job.kind = "artifact" THEN "read" ELSE IF job.bound THEN "advance" ELSE "hash",
            !.before = file[1].stamp, !.digest = IF job.bound THEN 0 ELSE None]
<1>0. /\ job.kind # "set" /\ File(main.m) = 1 /\ 1 \in Members /\ 0 \in Versions
      /\ file[1].content \in Versions /\ file[1].stamp \in Stamps
      /\ main.digest = None /\ disk.owners # "published"
  BY FirstTyped, PreparationAssumption DEF Open, At, File, IInv, Placed, Digested, Done,
     FileType,
     Versions, PreparationAssumption
<1>1. /\ main' = r /\ main.pc = "open"
      /\ UNCHANGED <<job, file, feed, own, got, disk>>
  BY <1>0 DEF Open, At, Goto, Mine
<1>2. Typed /\ Placed /\ main \in MainType BY DEF IInv, Typed
<1>3. r \in MainType /\ r.m = main.m /\ r.out = main.out
      /\ r.pc = (IF job.kind = "artifact" THEN "read" ELSE IF job.bound THEN "advance" ELSE "hash")
      /\ r.digest = (IF job.bound THEN 0 ELSE None)
  BY <1>0, <1>1, <1>2, ZenonT(60) DEF MainType, Places, Placed
<1> HIDE DEF r
<1>4. Typed' BY <1>0, <1>1, <1>2, <1>3 DEF Typed
<1>5. Stamped' BY <1>0, <1>1, <1>3 DEF IInv, Stamped, Typed, Members
<1>6. Placed'
  BY <1>0, <1>1, <1>3, PreparationAssumption DEF IInv, PreparationAssumption, Placed,
     Typed, MainType, Places, Members, Kinds, JobType
<1>7. Digested'
  BY <1>0, <1>1, <1>3, PreparationAssumption DEF IInv, PreparationAssumption, Digested,
     Typed, Placed, MainType, Versions, Members
<1>8. Bytes' BY <1>0, <1>1, <1>3 DEF IInv, Bytes, Between
<1>9. Handing' BY <1>1 DEF IInv, Handing
<1>10. Single' BY <1>0, <1>1, <1>3 DEF IInv, Single, Passed
<1>11. Sealed' BY <1>0, <1>1, <1>3 DEF IInv, Sealed, Placed
<1>12. Rows'
  BY <1>1, <1>2, <1>3, RowsStay, PreparationAssumption DEF Accepted, MainType,
     PreparationAssumption
<1>13. Done' BY <1>0, <1>1, <1>3 DEF IInv, Done, Placed
<1>14. Whole' BY <1>0, <1>1 DEF Whole
<1>15. Sound' BY <1>1, <1>3, SoundStays
<1> QED
  BY <1>4, <1>5, <1>6, <1>7, <1>8, <1>9, <1>10, <1>11, <1>12, <1>13, <1>14, <1>15 DEF IInv

LEMMA HashKeeps ==
    ASSUME IInv, Hash
    PROVE  IInv'
PROOF
<1> DEFINE r == [main EXCEPT !.pc = "advance", !.digest = file[1].content]
<1>0. /\ job.kind # "set" /\ File(main.m) = 1 /\ 1 \in Members /\ 0 \in Versions
      /\ file[1].content \in Versions /\ file[1].stamp \in Stamps
      /\ main.digest = None /\ disk.owners # "published"
  BY FirstTyped, PreparationAssumption DEF Hash, At, File, IInv, Placed, Digested, Done,
     FileType,
     Versions, PreparationAssumption
<1>1. /\ main' = r /\ main.pc = "hash"
      /\ UNCHANGED <<job, file, feed, own, got, disk>>
  BY <1>0 DEF Hash, At, Goto, Mine
<1>2. Typed /\ Placed /\ main \in MainType BY DEF IInv, Typed
<1>3. r \in MainType
      /\ r.m = main.m /\ r.out = main.out /\ r.pc = "advance" /\ r.digest = file[1].content
  BY <1>0, <1>1, <1>2 DEF MainType, Places, Placed
<1> HIDE DEF r
<1>4. Typed' BY <1>0, <1>1, <1>2, <1>3 DEF Typed
<1>5. Stamped' BY <1>0, <1>1, <1>3 DEF IInv, Stamped, Typed, Members
<1>6. Placed' BY <1>0, <1>1, <1>3 DEF IInv, Placed
<1>7. Digested'
  BY <1>0, <1>1, <1>3, PreparationAssumption DEF IInv, PreparationAssumption, Digested,
     Typed, Placed, MainType, Versions, Members
<1>8. Bytes' BY <1>0, <1>1, <1>3 DEF IInv, Bytes, Between
<1>9. Handing' BY <1>1 DEF IInv, Handing
<1>10. Single' BY <1>0, <1>1, <1>3 DEF IInv, Single, Passed
<1>11. Sealed' BY <1>0, <1>1, <1>3 DEF IInv, Sealed, Placed
<1>12. Rows'
  BY <1>1, <1>2, <1>3, RowsStay, PreparationAssumption DEF Accepted, MainType,
     PreparationAssumption
<1>13. Done' BY <1>0, <1>1, <1>3 DEF IInv, Done, Placed
<1>14. Whole' BY <1>0, <1>1 DEF Whole
<1>15. Sound' BY <1>1, <1>3, SoundStays
<1> QED
  BY <1>4, <1>5, <1>6, <1>7, <1>8, <1>9, <1>10, <1>11, <1>12, <1>13, <1>14, <1>15 DEF IInv

\* advance opens the next member.
LEMMA AdvanceOpensKeeps ==
    ASSUME IInv, Advance, main.next <= Last /\ main.next <= main.m + 1
    PROVE  IInv'
PROOF
<1> DEFINE r == [main EXCEPT !.next = @ + 1]
<1>0. /\ main.next \in Members /\ main.next + 1 \in 1..(Last + 1)
      /\ feed[main.next] \in FeedType /\ (job.kind = "container" => main.digest # None)
  BY PreparationAssumption DEF IInv, Typed, MainType, Members, Digested, Advance, At,
     PreparationAssumption
<1>1. /\ main' = r /\ main.pc = "advance" /\ main.next \in Members
      /\ feed' = [feed EXCEPT ![main.next].pc = "read"]
      /\ UNCHANGED <<job, file, own, got, disk>>
  BY <1>0 DEF Advance, At, Goto
<1>2. Typed /\ Placed /\ main \in MainType BY DEF IInv, Typed
<1>3. r \in MainType /\ r.pc = "advance"
      /\ r.m = main.m /\ r.digest = main.digest /\ r.out = main.out
  BY <1>0, <1>1, <1>2 DEF MainType, Places, Placed
<1> HIDE DEF r
<1>4. Typed' BY <1>0, <1>1, <1>2, <1>3 DEF Typed, FeedType, Queues
<1>5. Stamped' BY <1>0, <1>1, <1>3 DEF IInv, Stamped, Typed, Members
<1>6. Placed' BY <1>0, <1>1, <1>3 DEF IInv, Placed
<1>7. Digested' BY <1>0, <1>1, <1>3 DEF IInv, Digested, Placed
<1>8. Bytes'
  <2>1. \A m \in Members : feed'[m].hold = feed[m].hold /\ feed'[m].queue = feed[m].queue
    BY <1>0, <1>1, <1>2 DEF Typed, FeedType
  <2> QED BY <1>0, <1>1, <1>3, <2>1, BytesKept
<1>9. Handing' BY <1>0, <1>1, <1>3 DEF IInv, Handing, Typed, Over, Broken
<1>10. Single' BY <1>0, <1>1, <1>3 DEF IInv, Single, Passed
<1>11. Sealed' BY <1>0, <1>1, <1>3 DEF IInv, Sealed, Placed
<1>12. Rows'
  BY <1>1, <1>2, <1>3, RowsStay, PreparationAssumption DEF Accepted, MainType,
     PreparationAssumption
<1>13. Done' BY <1>0, <1>1, <1>3 DEF IInv, Done, Placed
<1>14. Whole' BY <1>1, <1>3, WholeStays DEF IInv, Typed, DiskType
<1>15. Sound' BY <1>1, <1>3, SoundStays
<1> QED
  BY <1>4, <1>5, <1>6, <1>7, <1>8, <1>9, <1>10, <1>11, <1>12, <1>13, <1>14, <1>15 DEF IInv

\* advance goes on to the copy, or to the end.
LEMMA AdvanceTurnsKeeps ==
    ASSUME IInv, Advance, ~(main.next <= Last /\ main.next <= main.m + 1)
    PROVE  IInv'
PROOF
<1> DEFINE r == [main EXCEPT !.pc = IF main.m > Last THEN "verify" ELSE "copy"]
<1>1. /\ main' = r /\ main.pc = "advance"
      /\ UNCHANGED <<job, file, feed, own, got, disk>>
  BY DEF Advance, At, Goto
<1>2. Typed /\ Placed /\ main \in MainType BY DEF IInv, Typed
<1>3. r \in MainType /\ r.pc = (IF main.m > Last THEN "verify" ELSE "copy")
      /\ r.m = main.m /\ r.digest = main.digest /\ r.out = main.out
  BY <1>1, <1>2, PreparationAssumption DEF MainType, Places, Placed, PreparationAssumption
<1> HIDE DEF r
<1>4. Typed' BY <1>1, <1>2, <1>3 DEF Typed
<1>5. Stamped' BY <1>1, <1>3 DEF IInv, Stamped, Typed, Members
<1>6. Placed'
  BY <1>1, <1>3, PreparationAssumption DEF IInv, PreparationAssumption, Placed, Typed,
     MainType, Places, Members, Kinds, JobType
<1>7. Digested' BY <1>1, <1>3 DEF IInv, Digested, Placed
<1>8. Bytes' BY <1>1, <1>3, BytesStay
<1>9. Handing' BY <1>1 DEF IInv, Handing
<1>10. Single' BY <1>1, <1>3 DEF IInv, Single, Passed
<1>11. Sealed' BY <1>1, <1>3 DEF IInv, Sealed, Placed
<1>12. Rows'
  BY <1>1, <1>2, <1>3, RowsStay, PreparationAssumption DEF Accepted, MainType,
     PreparationAssumption
<1>13. Done' BY <1>1, <1>3 DEF IInv, Done, Placed
<1>14. Whole' BY <1>1, <1>3, WholeStays DEF IInv, Typed, DiskType
<1>15. Sound' BY <1>1, <1>3, SoundStays
<1> QED
  BY <1>4, <1>5, <1>6, <1>7, <1>8, <1>9, <1>10, <1>11, <1>12, <1>13, <1>14, <1>15 DEF IInv

LEMMA AdvanceKeeps ==
    ASSUME IInv, Advance
    PROVE  IInv'
PROOF BY AdvanceOpensKeeps, AdvanceTurnsKeeps

LEMMA StatKeeps ==
    ASSUME IInv, Stat
    PROVE  IInv'
PROOF
<1> DEFINE r == [main EXCEPT !.pc = "read", !.before = file[File(main.m)].stamp, !.left = Blocks]
<1>0. /\ main.m \in Members /\ File(main.m) \in Members
      /\ file[File(main.m)].content \in Versions /\ file[File(main.m)].stamp \in Stamps
      /\ job.kind # "container" /\ Blocks \in 0..Blocks /\ Blocks \in Nat
      /\ main.left \in Int
  BY MineTyped, PreparationAssumption DEF Stat, At, IInv, Placed, FileType, Typed, MainType,
     PreparationAssumption
<1>1. /\ main' = r /\ main.pc = "stat"
      /\ UNCHANGED <<job, file, feed, own, got, disk>>
  BY <1>0 DEF Stat, At, Goto, Mine
<1>2. Typed /\ Placed /\ main \in MainType BY DEF IInv, Typed
<1>3. r \in MainType /\ r.pc = "read"
      /\ r.m = main.m /\ r.digest = main.digest /\ r.out = main.out
  BY <1>0, <1>1, <1>2 DEF MainType, Places, Placed
<1> HIDE DEF r
<1>4. Typed' BY <1>0, <1>1, <1>2, <1>3 DEF Typed
<1>5. Stamped' BY <1>0, <1>1, <1>3 DEF IInv, Stamped, Typed, Members
<1>6. Placed' BY <1>0, <1>1, <1>3 DEF IInv, Placed
<1>7. Digested' BY <1>0, <1>1, <1>3 DEF IInv, Digested, Placed
<1>8. Bytes' BY <1>1, <1>3, BytesStay
<1>9. Handing' BY <1>1 DEF IInv, Handing
<1>10. Single' BY <1>0, <1>1, <1>3 DEF IInv, Single, Passed
<1>11. Sealed' BY <1>0, <1>1, <1>3 DEF IInv, Sealed, Placed
<1>12. Rows'
  BY <1>1, <1>2, <1>3, RowsStay, PreparationAssumption DEF Accepted, MainType,
     PreparationAssumption
<1>13. Done' BY <1>0, <1>1, <1>3 DEF IInv, Done, Placed
<1>14. Whole' BY <1>1, <1>3, WholeStays DEF IInv, Typed, DiskType
<1>15. Sound' BY <1>1, <1>3, SoundStays
<1> QED
  BY <1>4, <1>5, <1>6, <1>7, <1>8, <1>9, <1>10, <1>11, <1>12, <1>13, <1>14, <1>15 DEF IInv

LEMMA ReadKeeps ==
    ASSUME IInv, Read
    PROVE  IInv'
PROOF
<1> DEFINE r == [main EXCEPT !.left = @ - 1]
<1>0. /\ main.m \in Members /\ File(main.m) \in Members
      /\ file[File(main.m)].content \in Versions /\ file[File(main.m)].stamp \in Stamps
      /\ job.kind # "container" /\ Blocks \in 0..Blocks /\ Blocks \in Nat
      /\ main.left \in Int
  BY MineTyped, PreparationAssumption DEF Read, At, IInv, Placed, FileType, Typed, MainType,
     PreparationAssumption
<1>1. /\ main' = r /\ main.pc = "read" /\ main.left > 0
      /\ got' = [got EXCEPT ![main.m] = @ \cup {file[File(main.m)].content}]
      /\ UNCHANGED <<job, file, feed, own, disk>>
  BY <1>0 DEF Read, At, Goto, Mine
<1>2. Typed /\ Placed /\ main \in MainType BY DEF IInv, Typed
<1>3. r \in MainType /\ r.pc = "read"
      /\ r.m = main.m /\ r.digest = main.digest /\ r.out = main.out
  BY <1>0, <1>1, <1>2 DEF MainType, Places, Placed
<1> HIDE DEF r
<1>4. Typed' BY <1>0, <1>1, <1>2, <1>3 DEF Typed, Versions
<1>5. Stamped' BY <1>0, <1>1, <1>3 DEF IInv, Stamped, Typed, Members
<1>6. Placed' BY <1>0, <1>1, <1>3 DEF IInv, Placed
<1>7. Digested' BY <1>0, <1>1, <1>3 DEF IInv, Digested, Placed
<1>8. Bytes' BY <1>0, <1>1 DEF Bytes
<1>9. Handing' BY <1>1 DEF IInv, Handing
<1>10. Single'
  <2>1. \A m \in Members : Passed(m)' => m # main.m /\ Passed(m)
    BY <1>1, <1>3 DEF Passed, MainType, Members
  <2>2. \A m \in Members : m # main.m => got'[m] = got[m] BY <1>1, <1>2 DEF Typed
  <2> QED BY <1>1, <1>3, <2>1, <2>2, SingleStays
<1>11. Sealed' BY <1>0, <1>1, <1>3 DEF IInv, Sealed, Placed
<1>12. Rows'
  BY <1>1, <1>2, <1>3, RowsStay, PreparationAssumption DEF Accepted, MainType,
     PreparationAssumption
<1>13. Done' BY <1>0, <1>1, <1>3 DEF IInv, Done, Placed
<1>14. Whole' BY <1>0, <1>1, <1>3 DEF IInv, Whole, Done
<1>15. Sound' BY <1>0, <1>1, <1>3 DEF IInv, Sound, Done, Placed
<1> QED
  BY <1>4, <1>5, <1>6, <1>7, <1>8, <1>9, <1>10, <1>11, <1>12, <1>13, <1>14, <1>15 DEF IInv

\* A file that was copied is of one version, or is refused.
LEMMA ReadEndsKeeps ==
    ASSUME IInv, ReadEnds
    PROVE  IInv'
PROOF
<1> DEFINE intact == \/ job.kind = "artifact"
                     \/ Cardinality(got[main.m]) = 1 /\ file[File(main.m)].stamp = main.before
           r == [main EXCEPT
            !.pc = IF ~intact THEN "unwind" ELSE IF job.kind = "artifact" THEN "rehash" ELSE "accept"]
<1>0. /\ main.m \in Members /\ got[main.m] \in SUBSET Versions /\ job.kind # "container"
      /\ Cardinality(got[main.m]) = 1 => OneVersion(got[main.m])
  BY MineTyped, Singleton DEF ReadEnds, At, IInv, Typed, Placed
<1>1. /\ main' = r /\ main.pc = "read"
      /\ UNCHANGED <<job, file, feed, own, got, disk>>
  BY <1>0 DEF ReadEnds, At, Goto, Mine
<1>2. Typed /\ Placed /\ main \in MainType BY DEF IInv, Typed
<1>3. r \in MainType
      /\ r.pc = (IF ~intact THEN "unwind" ELSE IF job.kind = "artifact" THEN "rehash" ELSE "accept")
      /\ r.m = main.m /\ r.digest = main.digest /\ r.out = main.out
  BY <1>0, <1>1, <1>2 DEF MainType, Places, Placed
<1> HIDE DEF r
<1>4. Typed' BY <1>0, <1>1, <1>2, <1>3 DEF Typed
<1>5. Stamped' BY <1>0, <1>1, <1>3 DEF IInv, Stamped, Typed, Members
<1>6. Placed' BY <1>0, <1>1, <1>3 DEF IInv, Placed
<1>7. Digested' BY <1>0, <1>1, <1>3 DEF IInv, Digested, Placed
<1>8. Bytes' BY <1>1, <1>3, BytesStay
<1>9. Handing' BY <1>1 DEF IInv, Handing
<1>10. Single'
  <2>1. CASE job.kind = "artifact"
    BY <1>0, <1>1, <1>3, <2>1, FirstTyped DEF IInv, Single, Placed
  <2>2. CASE job.kind # "artifact"
    <3>1. \A m \in Members : Passed(m)' => Passed(m) \/ (m = main.m /\ intact)
      BY <1>1, <1>3, <2>2 DEF Passed, MainType, Members
    <3>4. intact => Cardinality(got[main.m]) = 1 BY <2>2
    <3>2. got' = got /\ (intact => OneVersion(got[main.m])) BY <1>0, <1>1, <3>4
    <3>3. main'.pc # "reverify" BY <1>1, <1>3, <2>2
    <3> QED BY <1>1, <3>1, <3>2, <3>3, SingleStays
  <2> QED BY <2>1, <2>2
<1>11. Sealed' BY <1>0, <1>1, <1>3 DEF IInv, Sealed, Placed
<1>12. Rows'
  BY <1>1, <1>2, <1>3, RowsStay, PreparationAssumption DEF Accepted, MainType,
     PreparationAssumption
<1>13. Done' BY <1>0, <1>1, <1>3 DEF IInv, Done, Placed
<1>14. Whole' BY <1>1, <1>3, WholeStays DEF IInv, Typed, DiskType
<1>15. Sound' BY <1>1, <1>3, SoundStays
<1> QED
  BY <1>4, <1>5, <1>6, <1>7, <1>8, <1>9, <1>10, <1>11, <1>12, <1>13, <1>14, <1>15 DEF IInv

\* A member of a container is closed: its producer is stopped.
LEMMA CloseMemberKeeps ==
    ASSUME IInv, Close, job.kind = "container"
    PROVE  IInv'
PROOF
<1> DEFINE r == [main EXCEPT !.pc = "join"]
<1>0. main.m \in Members /\ feed[main.m] \in FeedType
  BY MineTyped DEF Close, At, IInv, Placed
<1>1. /\ main' = r /\ main.pc = "close"
      /\ feed' = [feed EXCEPT ![main.m].stop = TRUE]
      /\ UNCHANGED <<job, file, own, got, disk>>
  BY <1>0 DEF Close, At, Goto
<1>2. Typed /\ Placed /\ main \in MainType BY DEF IInv, Typed
<1>3. r \in MainType /\ r.pc = "join"
      /\ r.m = main.m /\ r.digest = main.digest /\ r.out = main.out
  BY <1>0, <1>1, <1>2 DEF MainType, Places, Placed, FeedType
<1> HIDE DEF r
<1>4. Typed' BY <1>0, <1>1, <1>2, <1>3 DEF Typed, FeedType, Queues
<1>5. Stamped' BY <1>0, <1>1, <1>3 DEF IInv, Stamped, Typed, Members, FeedType
<1>6. Placed' BY <1>0, <1>1, <1>3 DEF IInv, Placed, FeedType
<1>7. Digested' BY <1>0, <1>1, <1>3 DEF IInv, Digested, Placed, FeedType
<1>8. Bytes'
  BY <1>0, <1>1, <1>3 DEF IInv, Bytes, Between, Digested, Placed, Typed, MainType,
     Versions, Members, FeedType
<1>9. Handing' BY <1>0, <1>1, <1>3 DEF IInv, Handing, Typed, Over, Broken, FeedType
<1>10. Single' BY <1>0, <1>1, <1>3 DEF IInv, Single, Passed, FeedType
<1>11. Sealed' BY <1>0, <1>1, <1>3 DEF IInv, Sealed, Placed, FeedType
<1>12. Rows'
  BY <1>1, <1>2, <1>3, RowsStay, PreparationAssumption DEF Accepted, MainType,
     PreparationAssumption
<1>13. Done' BY <1>0, <1>1, <1>3 DEF IInv, Done, Placed, FeedType
<1>14. Whole' BY <1>1, <1>3, WholeStays DEF IInv, Typed, DiskType
<1>15. Sound' BY <1>1, <1>3, SoundStays
<1> QED
  BY <1>4, <1>5, <1>6, <1>7, <1>8, <1>9, <1>10, <1>11, <1>12, <1>13, <1>14, <1>15 DEF IInv

\* A file of a set is closed: the next one follows.
LEMMA CloseFileKeeps ==
    ASSUME IInv, Close, job.kind # "container"
    PROVE  IInv'
PROOF
<1> DEFINE r == [main EXCEPT !.m = @ + 1, !.pc = IF main.m = Last THEN "exit" ELSE "stat"]
<1>0. main.m \in Members /\ main.m + 1 \in 1..(Last + 1)
  BY MineTyped, PreparationAssumption DEF Close, At, IInv, Placed, Members,
     PreparationAssumption
<1>1. /\ main' = r /\ main.pc = "close" /\ main.m \in Members
      /\ UNCHANGED <<job, file, feed, own, got, disk>>
  BY <1>0 DEF Close, At, Goto
<1>2. Typed /\ Placed /\ main \in MainType BY DEF IInv, Typed
<1>3. r \in MainType /\
      /\ r.pc = (IF main.m = Last THEN "exit" ELSE "stat") /\ r.m = main.m + 1
      /\ r.digest = main.digest /\ r.out = main.out
  BY <1>0, <1>1, <1>2 DEF MainType, Places, Placed
<1> HIDE DEF r
<1>4. Typed' BY <1>0, <1>1, <1>2, <1>3 DEF Typed
<1>5. Stamped' BY <1>0, <1>1, <1>3 DEF IInv, Stamped, Typed, Members
<1>6. Placed'
  BY <1>0, <1>1, <1>3, PreparationAssumption DEF IInv, PreparationAssumption, Placed,
     Typed, MainType, Places, Members, Kinds, JobType
<1>7. Digested' BY <1>0, <1>1, <1>3 DEF IInv, Digested, Placed
<1>8. Bytes' BY <1>1, <1>3, BytesStay
<1>9. Handing' BY <1>1 DEF IInv, Handing
<1>10. Single'
  <2>1. \A m \in Members : Passed(m)' => Passed(m)
    BY <1>0, <1>1, <1>2, <1>3 DEF Passed, MainType, Members
  <2> QED BY <1>1, <1>3, <2>1, SingleStays
<1>11. Sealed' BY <1>0, <1>1, <1>3 DEF IInv, Sealed, Placed
<1>12. Rows'
  BY <1>1, <1>2, <1>3, RowsStay, PreparationAssumption DEF Accepted, MainType,
     PreparationAssumption
<1>13. Done' BY <1>0, <1>1, <1>3 DEF IInv, Done, Placed
<1>14. Whole' BY <1>1, <1>3, WholeStays DEF IInv, Typed, DiskType
<1>15. Sound' BY <1>1, <1>3, SoundStays
<1> QED
  BY <1>4, <1>5, <1>6, <1>7, <1>8, <1>9, <1>10, <1>11, <1>12, <1>13, <1>14, <1>15 DEF IInv

LEMMA CloseKeeps ==
    ASSUME IInv, Close
    PROVE  IInv'
PROOF BY CloseMemberKeeps, CloseFileKeeps

LEMMA JoinKeeps ==
    ASSUME IInv, Join
    PROVE  IInv'
PROOF
<1> DEFINE r == [main EXCEPT !.pc = "advance", !.m = @ + 1]
<1>0. main.m \in Members /\ main.m + 1 \in 1..(Last + 1)
  BY MineTyped, PreparationAssumption DEF Join, At, IInv, Placed, Members,
     PreparationAssumption
<1>1. /\ main' = r /\ main.pc = "join" /\ main.m \in Members
      /\ UNCHANGED <<job, file, feed, own, got, disk>>
  BY <1>0 DEF Join, At, Goto
<1>2. Typed /\ Placed /\ main \in MainType BY DEF IInv, Typed
<1>3. r \in MainType /\ r.pc = "advance"
      /\ r.m = main.m + 1 /\ r.digest = main.digest /\ r.out = main.out
  BY <1>0, <1>1, <1>2 DEF MainType, Places, Placed
<1> HIDE DEF r
<1>4. Typed' BY <1>0, <1>1, <1>2, <1>3 DEF Typed
<1>5. Stamped' BY <1>0, <1>1, <1>3 DEF IInv, Stamped, Typed, Members
<1>6. Placed' BY <1>0, <1>1, <1>3 DEF IInv, Placed
<1>7. Digested' BY <1>0, <1>1, <1>3 DEF IInv, Digested, Placed
<1>8. Bytes' BY <1>1, <1>3, BytesStay
<1>9. Handing' BY <1>1 DEF IInv, Handing
<1>10. Single'
  <2>1. \A m \in Members : Passed(m)' => Passed(m)
    BY <1>0, <1>1, <1>2, <1>3 DEF Passed, MainType, Members
  <2> QED BY <1>1, <1>3, <2>1, SingleStays
<1>11. Sealed' BY <1>0, <1>1, <1>3 DEF IInv, Sealed, Placed
<1>12. Rows'
  BY <1>1, <1>2, <1>3, RowsStay, PreparationAssumption DEF Accepted, MainType,
     PreparationAssumption
<1>13. Done' BY <1>0, <1>1, <1>3 DEF IInv, Done, Placed
<1>14. Whole' BY <1>1, <1>3, WholeStays DEF IInv, Typed, DiskType
<1>15. Sound' BY <1>1, <1>3, SoundStays
<1> QED
  BY <1>4, <1>5, <1>6, <1>7, <1>8, <1>9, <1>10, <1>11, <1>12, <1>13, <1>14, <1>15 DEF IInv

LEMMA VerifyKeeps ==
    ASSUME IInv, Verify
    PROVE  IInv'
PROOF
<1> DEFINE r == [main EXCEPT !.pc = IF file[1].stamp = main.before THEN "rehash" ELSE "unwind"]
<1>1. /\ main' = r /\ main.pc = "verify"
      /\ UNCHANGED <<job, file, feed, own, got, disk>>
  BY DEF Verify, At, Goto
<1>2. Typed /\ Placed /\ main \in MainType BY DEF IInv, Typed
<1>3. r \in MainType /\ r.pc = (IF file[1].stamp = main.before THEN "rehash" ELSE "unwind")
      /\ r.m = main.m /\ r.digest = main.digest /\ r.out = main.out
  BY <1>1, <1>2, PreparationAssumption DEF MainType, Places, Placed, PreparationAssumption
<1> HIDE DEF r
<1>4. Typed' BY <1>1, <1>2, <1>3 DEF Typed
<1>5. Stamped' BY <1>1, <1>3 DEF IInv, Stamped, Typed, Members
<1>6. Placed' BY <1>1, <1>3 DEF IInv, Placed
<1>7. Digested' BY <1>1, <1>3 DEF IInv, Digested, Placed
<1>8. Bytes' BY <1>1, <1>3, BytesStay
<1>9. Handing' BY <1>1 DEF IInv, Handing
<1>10. Single' BY <1>1, <1>3 DEF IInv, Single, Passed
<1>11. Sealed' BY <1>1, <1>3 DEF IInv, Sealed, Placed
<1>12. Rows'
  BY <1>1, <1>2, <1>3, RowsStay, PreparationAssumption DEF Accepted, MainType,
     PreparationAssumption
<1>13. Done' BY <1>1, <1>3 DEF IInv, Done, Placed
<1>14. Whole' BY <1>1, <1>3, WholeStays DEF IInv, Typed, DiskType
<1>15. Sound' BY <1>1, <1>3, SoundStays
<1> QED
  BY <1>4, <1>5, <1>6, <1>7, <1>8, <1>9, <1>10, <1>11, <1>12, <1>13, <1>14, <1>15 DEF IInv

\* The digest is the same at the end: nothing was written in between.
LEMMA RehashKeeps ==
    ASSUME IInv, Rehash
    PROVE  IInv'
PROOF
<1> DEFINE same == IF job.kind = "artifact" THEN got[1] = {file[1].content}
                                           ELSE main.digest = file[1].content
           r == [main EXCEPT !.pc = IF same THEN "reverify" ELSE "unwind"]
<1>0. 1 \in Members /\ file[1].content \in Versions BY FirstTyped DEF FileType
<1>1. /\ main' = r /\ main.pc = "rehash"
      /\ UNCHANGED <<job, file, feed, own, got, disk>>
  BY <1>0 DEF Rehash, At, Goto
<1>2. Typed /\ Placed /\ main \in MainType BY DEF IInv, Typed
<1>3. r \in MainType /\ r.pc = (IF same THEN "reverify" ELSE "unwind")
      /\ r.m = main.m /\ r.digest = main.digest /\ r.out = main.out
  BY <1>0, <1>1, <1>2 DEF MainType, Places, Placed
<1> HIDE DEF r
<1>4. Typed' BY <1>0, <1>1, <1>2, <1>3 DEF Typed
<1>5. Stamped' BY <1>0, <1>1, <1>3 DEF IInv, Stamped, Typed, Members
<1>6. Placed' BY <1>0, <1>1, <1>3 DEF IInv, Placed
<1>7. Digested' BY <1>0, <1>1, <1>3 DEF IInv, Digested, Placed
<1>8. Bytes' BY <1>1, <1>3, BytesStay
<1>9. Handing' BY <1>1 DEF IInv, Handing
<1>10. Single'
  <2>1. CASE job.kind = "artifact" /\ same
    BY <1>0, <1>1, <2>1 DEF Single, OneVersion
  <2>2. CASE ~(job.kind = "artifact" /\ same)
    <3>1. \A m \in Members : Passed(m)' => Passed(m)
      BY <1>1, <1>2, <1>3, <2>2 DEF Passed, MainType, Members
    <3>2. CASE job.kind = "artifact"
      BY <1>1, <1>3, <2>2, <3>2 DEF Single
    <3>3. CASE job.kind # "artifact"
      BY <1>1, <3>1, <3>3 DEF IInv, Single
    <3> QED BY <3>2, <3>3
  <2> QED BY <2>1, <2>2
<1>11. Sealed'
  <2>1. SUFFICES ASSUME job.kind = "container", r.pc = "reverify", NEW m \in Members
                 PROVE  got[m] = {main.digest}
    BY <1>1, <1>3 DEF Sealed
  <2>2. Passed(m) /\ main.digest = file[1].content
    BY <1>1, <1>2, <1>3, <2>1, PreparationAssumption
      DEF Placed, Passed, Members, PreparationAssumption
  <2>3. PICK v \in Versions : got[m] = {v} BY <2>1, <2>2 DEF IInv, Single, OneVersion
  <2>4. Between(v) BY <2>1, <2>3 DEF IInv, Bytes
  <2> QED BY <1>0, <2>2, <2>3, <2>4 DEF Between, Versions
<1>12. Rows'
  BY <1>1, <1>2, <1>3, RowsStay, PreparationAssumption DEF Accepted, MainType,
     PreparationAssumption
<1>13. Done' BY <1>0, <1>1, <1>3 DEF IInv, Done, Placed
<1>14. Whole' BY <1>1, <1>3, WholeStays DEF IInv, Typed, DiskType
<1>15. Sound' BY <1>1, <1>3, SoundStays
<1> QED
  BY <1>4, <1>5, <1>6, <1>7, <1>8, <1>9, <1>10, <1>11, <1>12, <1>13, <1>14, <1>15 DEF IInv

\* The copy of an artifact is complete.
LEMMA ReverifyKeeps ==
    ASSUME IInv, Reverify
    PROVE  IInv'
PROOF
<1> DEFINE r == [main EXCEPT
            !.pc = IF file[1].stamp # main.before THEN "unwind"
                   ELSE IF job.kind = "artifact" THEN "done" ELSE "exit",
            !.out = IF file[1].stamp = main.before /\ job.kind = "artifact" THEN "ok" ELSE @]
<1>0. 1 \in Members BY FirstTyped
<1>1. /\ main' = r /\ main.pc = "reverify"
      /\ UNCHANGED <<job, file, feed, own, got, disk>>
  BY <1>0 DEF Reverify, At, Goto
<1>2. Typed /\ Placed /\ main \in MainType BY DEF IInv, Typed
<1>3. r \in MainType /\ r.m = main.m /\ r.digest = main.digest
      /\ r.pc = (IF file[1].stamp # main.before THEN "unwind"
                 ELSE IF job.kind = "artifact" THEN "done" ELSE "exit")
      /\ r.out = (IF file[1].stamp = main.before /\ job.kind = "artifact" THEN "ok" ELSE main.out)
  BY <1>0, <1>1, <1>2 DEF MainType, Places, Placed
<1> HIDE DEF r
<1>4. Typed' BY <1>0, <1>1, <1>2, <1>3 DEF Typed
<1>5. Stamped' BY <1>0, <1>1, <1>3 DEF IInv, Stamped, Typed, Members
<1>6. Placed'
  BY <1>0, <1>1, <1>3, PreparationAssumption DEF IInv, PreparationAssumption, Placed,
     Typed, MainType, Places, Members, Kinds, JobType
<1>7. Digested' BY <1>0, <1>1, <1>3 DEF IInv, Digested, Placed
<1>8. Bytes' BY <1>1, <1>3, BytesStay
<1>9. Handing' BY <1>1 DEF IInv, Handing
<1>10. Single' BY <1>0, <1>1, <1>3 DEF IInv, Single, Passed
<1>11. Sealed' BY <1>0, <1>1, <1>3 DEF IInv, Sealed, Placed
<1>12. Rows'
  BY <1>1, <1>2, <1>3, RowsStay, PreparationAssumption DEF Accepted, MainType,
     PreparationAssumption
<1>13. Done' BY <1>0, <1>1, <1>3 DEF IInv, Done, Placed
<1>14. Whole' BY <1>1, <1>3, WholeStays DEF IInv, Typed, DiskType
<1>15. Sound' BY <1>1, <1>2, <1>3 DEF IInv, Sound, Single, Placed, Done
<1> QED
  BY <1>4, <1>5, <1>6, <1>7, <1>8, <1>9, <1>10, <1>11, <1>12, <1>13, <1>14, <1>15 DEF IInv

LEMMA ExitKeeps ==
    ASSUME IInv, Exit
    PROVE  IInv'
PROOF
<1> DEFINE r == [main EXCEPT !.pc = IF own.failed THEN "unwind" ELSE "publish"]
<1>1. /\ main' = r /\ main.pc = "exit" /\ own.job = None
      /\ UNCHANGED <<job, file, feed, own, got, disk>>
  BY DEF Exit, At, Goto
<1>2. Typed /\ Placed /\ main \in MainType BY DEF IInv, Typed
<1>3. r \in MainType /\ r.pc = (IF own.failed THEN "unwind" ELSE "publish")
      /\ r.m = main.m /\ r.digest = main.digest /\ r.out = main.out
  BY <1>1, <1>2, PreparationAssumption DEF MainType, Places, Placed, PreparationAssumption
<1> HIDE DEF r
<1>4. Typed' BY <1>1, <1>2, <1>3 DEF Typed
<1>5. Stamped' BY <1>1, <1>3 DEF IInv, Stamped, Typed, Members
<1>6. Placed' BY <1>1, <1>3 DEF IInv, Placed
<1>7. Digested' BY <1>1, <1>3 DEF IInv, Digested, Placed
<1>8. Bytes' BY <1>1, <1>3, BytesStay
<1>9. Handing' BY <1>1 DEF IInv, Handing
<1>10. Single' BY <1>1, <1>3 DEF IInv, Single, Passed
<1>11. Sealed' BY <1>1, <1>3 DEF IInv, Sealed, Placed
<1>12. Rows'
  BY <1>1, <1>2, <1>3, RowsStay, PreparationAssumption DEF Accepted, MainType,
     PreparationAssumption
<1>13. Done' BY <1>1, <1>3 DEF IInv, Done, Placed
<1>14. Whole' BY <1>1, <1>3, WholeStays DEF IInv, Typed, DiskType
<1>15. Sound' BY <1>1, <1>3, SoundStays
<1> QED
  BY <1>4, <1>5, <1>6, <1>7, <1>8, <1>9, <1>10, <1>11, <1>12, <1>13, <1>14, <1>15 DEF IInv

\* The directory gets its name.
LEMMA PublishKeeps ==
    ASSUME IInv, Publish
    PROVE  IInv'
PROOF
<1> DEFINE r == [main EXCEPT !.pc = "answer"]
<1>1. /\ main' = r /\ main.pc = "publish"
      /\ disk' = [disk EXCEPT !.owners = "published"]
      /\ UNCHANGED <<job, file, feed, own, got>>
  BY DEF Publish, At, Goto
<1>2. Typed /\ Placed /\ main \in MainType BY DEF IInv, Typed
<1>3. r \in MainType /\ r.pc = "answer"
      /\ r.m = main.m /\ r.digest = main.digest /\ r.out = main.out
  BY <1>1, <1>2, PreparationAssumption DEF MainType, Places, Placed, PreparationAssumption
<1> HIDE DEF r
<1>4. Typed' BY <1>1, <1>2, <1>3 DEF Typed, DiskType
<1>5. Stamped' BY <1>1, <1>3 DEF IInv, Stamped, Typed, Members
<1>6. Placed' BY <1>1, <1>3 DEF IInv, Placed
<1>7. Digested' BY <1>1, <1>3 DEF IInv, Digested, Placed
<1>8. Bytes' BY <1>1, <1>3, BytesStay
<1>9. Handing' BY <1>1 DEF IInv, Handing
<1>10. Single' BY <1>1, <1>3 DEF IInv, Single, Passed
<1>11. Sealed' BY <1>1, <1>3 DEF IInv, Sealed, Placed
<1>12. Rows'
  BY <1>1, <1>2, <1>3, RowsStay, PreparationAssumption DEF Accepted, MainType,
     PreparationAssumption
<1>13. Done' BY <1>1, <1>3 DEF IInv, Done, Placed
<1>14. Whole'
  <2>1. main.m = Last + 1 /\ own.job = None BY <1>1, <1>2 DEF IInv, Placed, Done
  <2>2. Indexed(own.rows, Last)
    BY <1>1, <2>1, PreparationAssumption DEF IInv, Rows, Inserted, Accepted,
       PreparationAssumption
  <2>3. \A m \in Members : /\ job.kind # "artifact" => OneVersion(got[m])
                           /\ job.kind = "container" => got[m] = {main.digest}
    BY <1>1, <2>1, PreparationAssumption
      DEF IInv, Single, Sealed, Passed, Members, PreparationAssumption
  <2>4. job.kind # "artifact" BY <1>1, <1>2 DEF Placed
  <2>6. Indexed(own.rows, Last)' BY <1>1, <2>2 DEF Indexed
  <2> QED BY <1>1, <1>3, <2>3, <2>4, <2>6 DEF Whole
<1>15. Sound' BY <1>1, <1>3 DEF IInv, Sound, Done, Placed
<1> QED
  BY <1>4, <1>5, <1>6, <1>7, <1>8, <1>9, <1>10, <1>11, <1>12, <1>13, <1>14, <1>15 DEF IInv

\* The duplicates, and the hash that a set was asked for, are checked.
LEMMA AnswerKeeps ==
    ASSUME IInv, Answer
    PROVE  IInv'
PROOF
<1> DEFINE wrong == job.bound /\ job.kind = "set" /\ \E m \in Members : got[m] # {0}
           r == [main EXCEPT !.pc = IF wrong \/ own.dups # {} THEN "error" ELSE "json"]
<1>1. /\ main' = r /\ main.pc = "answer"
      /\ UNCHANGED <<job, file, feed, own, got, disk>>
  BY DEF Answer, At, Goto
<1>2. Typed /\ Placed /\ main \in MainType BY DEF IInv, Typed
<1>3. r \in MainType /\ r.pc = (IF wrong \/ own.dups # {} THEN "error" ELSE "json")
      /\ r.m = main.m /\ r.digest = main.digest /\ r.out = main.out
  BY <1>1, <1>2, PreparationAssumption DEF MainType, Places, Placed, PreparationAssumption
<1> HIDE DEF r
<1>4. Typed' BY <1>1, <1>2, <1>3 DEF Typed
<1>5. Stamped' BY <1>1, <1>3 DEF IInv, Stamped, Typed, Members
<1>6. Placed' BY <1>1, <1>3 DEF IInv, Placed
<1>7. Digested' BY <1>1, <1>3 DEF IInv, Digested, Placed
<1>8. Bytes' BY <1>1, <1>3, BytesStay
<1>9. Handing' BY <1>1 DEF IInv, Handing
<1>10. Single' BY <1>1, <1>3 DEF IInv, Single, Passed
<1>11. Sealed' BY <1>1, <1>3 DEF IInv, Sealed, Placed
<1>12. Rows'
  BY <1>1, <1>2, <1>3, RowsStay, PreparationAssumption DEF Accepted, MainType,
     PreparationAssumption
<1>13. Done'
  <2>1. main.m = Last + 1 /\ own.job = None /\ ~own.failed
    BY <1>1, <1>2 DEF IInv, Placed, Done
  <2>2. Unique(Last)
    BY <1>1, <2>1, PreparationAssumption DEF IInv, Rows, Inserted, Accepted,
       PreparationAssumption
  <2>3. own.dups = {} => Disjoint BY <2>2 DEF Unique, Disjoint, Members
  <2>4. r.pc = "json" /\ job.bound => \A m \in Members : got[m] = {0}
    BY <1>1, <1>2, <1>3 DEF IInv, Digested, Sealed, Placed, Typed, JobType, Kinds
  <2> QED BY <1>1, <1>3, <2>3, <2>4 DEF IInv, Done, Disjoint
<1>14. Whole' BY <1>1, <1>3, WholeStays DEF IInv, Typed, DiskType
<1>15. Sound' BY <1>1, <1>3, SoundStays
<1> QED
  BY <1>4, <1>5, <1>6, <1>7, <1>8, <1>9, <1>10, <1>11, <1>12, <1>13, <1>14, <1>15 DEF IInv

LEMMA JsonKeeps ==
    ASSUME IInv, Json
    PROVE  IInv'
PROOF
<1> DEFINE r == [main EXCEPT !.pc = IF disk.json = "none" THEN "json" ELSE "done",
                            !.out = IF disk.json = "none" THEN @ ELSE "ok"]
<1>1. /\ main' = r /\ main.pc = "json"
      /\ disk' = [disk EXCEPT !.json = IF @ = "none" THEN "part" ELSE "whole"]
      /\ UNCHANGED <<job, file, feed, own, got>>
  BY DEF Json, At, Goto
<1>2. Typed /\ Placed /\ main \in MainType BY DEF IInv, Typed
<1>3. r \in MainType /\ r.m = main.m /\ r.digest = main.digest
      /\ r.pc = (IF disk.json = "none" THEN "json" ELSE "done")
      /\ r.out = (IF disk.json = "none" THEN main.out ELSE "ok")
  BY <1>1, <1>2, PreparationAssumption DEF MainType, Places, Placed, PreparationAssumption
<1> HIDE DEF r
<1>4. Typed' BY <1>1, <1>2, <1>3 DEF Typed, DiskType
<1>5. Stamped' BY <1>1, <1>3 DEF IInv, Stamped, Typed, Members
<1>6. Placed' BY <1>1, <1>3 DEF IInv, Placed
<1>7. Digested' BY <1>1, <1>3 DEF IInv, Digested, Placed
<1>8. Bytes' BY <1>1, <1>3, BytesStay
<1>9. Handing' BY <1>1 DEF IInv, Handing
<1>10. Single' BY <1>1, <1>3 DEF IInv, Single, Passed
<1>11. Sealed' BY <1>1, <1>3 DEF IInv, Sealed, Placed
<1>12. Rows'
  BY <1>1, <1>2, <1>3, RowsStay, PreparationAssumption DEF Accepted, MainType,
     PreparationAssumption
<1>13. Done' BY <1>1, <1>2, <1>3 DEF IInv, Done, Disjoint, Typed, DiskType
<1>14. Whole' BY <1>1, <1>3, WholeStays DEF IInv, Typed, DiskType
<1>15. Sound'
  BY <1>1, <1>3, PreparationAssumption DEF IInv, PreparationAssumption, Sound, Done,
     Placed, Disjoint, Typed
<1> QED
  BY <1>4, <1>5, <1>6, <1>7, <1>8, <1>9, <1>10, <1>11, <1>12, <1>13, <1>14, <1>15 DEF IInv

LEMMA UnwindKeeps ==
    ASSUME IInv, Unwind
    PROVE  IInv'
PROOF
<1> DEFINE r == [main EXCEPT !.pc = "error"]
<1>1. /\ main' = r /\ main.pc = "unwind"
      /\ feed' = [m \in Members |-> [feed[m] EXCEPT !.stop = TRUE]]
      /\ UNCHANGED <<job, file, own, got, disk>>
  BY DEF Unwind, At, Goto
<1>2. Typed /\ Placed /\ main \in MainType BY DEF IInv, Typed
<1>3. r \in MainType /\ r.pc = "error"
      /\ r.m = main.m /\ r.digest = main.digest /\ r.out = main.out
  BY <1>1, <1>2, PreparationAssumption DEF MainType, Places, Placed, PreparationAssumption,
     FeedType
<1> HIDE DEF r
<1>4. Typed' BY <1>1, <1>2, <1>3 DEF Typed, FeedType, Queues
<1>5. Stamped' BY <1>1, <1>3 DEF IInv, Stamped, Typed, Members, FeedType
<1>6. Placed' BY <1>1, <1>3 DEF IInv, Placed, FeedType
<1>7. Digested' BY <1>1, <1>3 DEF IInv, Digested, Placed, FeedType
<1>8. Bytes'
  <2>1. \A m \in Members : /\ feed'[m].pc = feed[m].pc /\ feed'[m].hold = feed[m].hold
                           /\ feed'[m].queue = feed[m].queue
    BY <1>1, <1>2 DEF Typed, FeedType
  <2> QED BY <1>1, <1>3, <2>1, BytesKept
<1>9. Handing' BY <1>1, <1>3 DEF IInv, Handing, Typed, Over, Broken, FeedType
<1>10. Single' BY <1>1, <1>3 DEF IInv, Single, Passed, FeedType
<1>11. Sealed' BY <1>1, <1>3 DEF IInv, Sealed, Placed, FeedType
<1>12. Rows'
  BY <1>1, <1>2, <1>3, RowsStay, PreparationAssumption DEF Accepted, MainType,
     PreparationAssumption
<1>13. Done' BY <1>1, <1>3 DEF IInv, Done, Placed, FeedType
<1>14. Whole' BY <1>1, <1>3, WholeStays DEF IInv, Typed, DiskType
<1>15. Sound' BY <1>1, <1>3, SoundStays
<1> QED
  BY <1>4, <1>5, <1>6, <1>7, <1>8, <1>9, <1>10, <1>11, <1>12, <1>13, <1>14, <1>15 DEF IInv

LEMMA EndKeeps ==
    ASSUME IInv, End
    PROVE  IInv'
PROOF
<1> DEFINE r == [main EXCEPT !.pc = "done", !.out = "error"]
<1>1. /\ main' = r /\ main.pc = "error"
      /\ UNCHANGED <<job, file, feed, own, got, disk>>
  BY DEF End, At, Goto
<1>2. Typed /\ Placed /\ main \in MainType BY DEF IInv, Typed
<1>3. r \in MainType /\ r.pc = "done"
      /\ r.m = main.m /\ r.digest = main.digest /\ r.out = "error"
  BY <1>1, <1>2, PreparationAssumption DEF MainType, Places, Placed, PreparationAssumption
<1> HIDE DEF r
<1>4. Typed' BY <1>1, <1>2, <1>3 DEF Typed
<1>5. Stamped' BY <1>1, <1>3 DEF IInv, Stamped, Typed, Members
<1>6. Placed' BY <1>1, <1>3 DEF IInv, Placed
<1>7. Digested' BY <1>1, <1>3 DEF IInv, Digested, Placed
<1>8. Bytes' BY <1>1, <1>3, BytesStay
<1>9. Handing' BY <1>1 DEF IInv, Handing
<1>10. Single' BY <1>1, <1>3 DEF IInv, Single, Passed
<1>11. Sealed' BY <1>1, <1>3 DEF IInv, Sealed, Placed
<1>12. Rows'
  BY <1>1, <1>2, <1>3, RowsStay, PreparationAssumption DEF Accepted, MainType,
     PreparationAssumption
<1>13. Done' BY <1>1, <1>3 DEF IInv, Done, Placed
<1>14. Whole' BY <1>1, <1>3, WholeStays DEF IInv, Typed, DiskType
<1>15. Sound' BY <1>1, <1>3, SoundStays
<1> QED
  BY <1>4, <1>5, <1>6, <1>7, <1>8, <1>9, <1>10, <1>11, <1>12, <1>13, <1>14, <1>15 DEF IInv

LEMMA FailKeeps ==
    ASSUME IInv, Fail
    PROVE  IInv'
PROOF
<1> DEFINE r == [main EXCEPT !.pc = IF main.pc = "json" THEN "error" ELSE "unwind"]
<1>1. /\ main' = r /\ main.pc \in {"open", "advance", "copy", "read", "accept", "json"}
      /\ UNCHANGED <<job, file, feed, own, got, disk>>
  BY DEF Fail, At, Goto
<1>2. Typed /\ Placed /\ main \in MainType BY DEF IInv, Typed
<1>3. r \in MainType /\ r.pc = (IF main.pc = "json" THEN "error" ELSE "unwind")
      /\ r.m = main.m /\ r.digest = main.digest /\ r.out = main.out
  BY <1>1, <1>2, PreparationAssumption DEF MainType, Places, Placed, PreparationAssumption
<1> HIDE DEF r
<1>4. Typed' BY <1>1, <1>2, <1>3 DEF Typed
<1>5. Stamped' BY <1>1, <1>3 DEF IInv, Stamped, Typed, Members
<1>6. Placed' BY <1>1, <1>3 DEF IInv, Placed
<1>7. Digested' BY <1>1, <1>3 DEF IInv, Digested, Placed
<1>8. Bytes' BY <1>1, <1>3, BytesStay
<1>9. Handing' BY <1>1 DEF IInv, Handing
<1>10. Single' BY <1>1, <1>3 DEF IInv, Single, Passed
<1>11. Sealed' BY <1>1, <1>3 DEF IInv, Sealed, Placed
<1>12. Rows'
  BY <1>1, <1>2, <1>3, RowsStay, PreparationAssumption DEF Accepted, MainType,
     PreparationAssumption
<1>13. Done' BY <1>1, <1>3 DEF IInv, Done, Placed
<1>14. Whole' BY <1>1, <1>3, WholeStays DEF IInv, Typed, DiskType
<1>15. Sound' BY <1>1, <1>3, SoundStays
<1> QED
  BY <1>4, <1>5, <1>6, <1>7, <1>8, <1>9, <1>10, <1>11, <1>12, <1>13, <1>14, <1>15 DEF IInv

LEMMA DieKeeps ==
    ASSUME IInv, Die
    PROVE  IInv'
PROOF
<1> DEFINE r == [main EXCEPT !.pc = "dead"]
<1>0. Blocks \in Nat /\ None \notin Int BY PreparationAssumption DEF PreparationAssumption
<1>1. /\ main' = r /\ main.pc \notin {"done", "dead"}
      /\ own' = [own EXCEPT !.job = None] /\ feed' = [m \in Members |-> Quiet]
      /\ UNCHANGED <<job, file, got, disk>>
  BY <1>0 DEF Die, At, Goto
<1>2. Typed /\ Placed /\ main \in MainType BY DEF IInv, Typed
<1>3. r \in MainType /\ r.pc = "dead"
      /\ r.m = main.m /\ r.digest = main.digest /\ r.out = main.out
  BY <1>0, <1>1, <1>2 DEF MainType, Places, Placed, Quiet, FeedType, OwnType
<1> HIDE DEF r
<1>4. Typed' BY <1>0, <1>1, <1>2, <1>3 DEF Typed, FeedType, Queues, OwnType, Quiet
<1>5. Stamped'
  BY <1>0, <1>1, <1>3 DEF IInv, Stamped, Typed, Members, Quiet, FeedType, OwnType
<1>6. Placed' BY <1>0, <1>1, <1>3 DEF IInv, Placed, Quiet, FeedType, OwnType
<1>7. Digested' BY <1>0, <1>1, <1>3 DEF IInv, Digested, Placed, Quiet, FeedType, OwnType
<1>8. Bytes'
  <2>1. \A m \in Members : /\ feed'[m].pc = "none" /\ feed'[m].hold \notin Versions
                           /\ feed'[m].queue = <<>>
    BY <1>0, <1>1 DEF Quiet, Versions
  <2> QED BY <1>1, <1>3, <2>1, BytesKept
<1>9. Handing'
  BY <1>0, <1>1, <1>3 DEF IInv, Handing, Typed, Over, Broken, Quiet, FeedType, OwnType
<1>10. Single' BY <1>0, <1>1, <1>3 DEF IInv, Single, Passed, Quiet, FeedType, OwnType
<1>11. Sealed' BY <1>0, <1>1, <1>3 DEF IInv, Sealed, Placed, Quiet, FeedType, OwnType
<1>12. Rows' BY <1>1, <1>3 DEF Rows
<1>13. Done' BY <1>0, <1>1, <1>3 DEF IInv, Done, Placed, Quiet, FeedType, OwnType
<1>14. Whole'
  <2>1. own'.rows = own.rows BY <1>1, <1>2 DEF Typed, OwnType
  <2> QED BY <1>1, <1>3, <2>1, WholeStays
<1>15. Sound' BY <1>1, <1>3, SoundStays
<1> QED
  BY <1>4, <1>5, <1>6, <1>7, <1>8, <1>9, <1>10, <1>11, <1>12, <1>13, <1>14, <1>15 DEF IInv

\* One thing is taken from the queue.
LEMMA CopyKeeps ==
    ASSUME IInv, Copy
    PROVE  IInv'
PROOF
<1> DEFINE what == Head(feed[main.m].queue)
           next == IF what >= 0 THEN "copy"
                   ELSE IF what = Over /\ Cardinality(got[main.m]) = 1 THEN "accept" ELSE "unwind"
           r == [main EXCEPT !.pc = next]
<1>0. /\ main.m \in Members /\ got[main.m] \in SUBSET Versions /\ feed[main.m] \in FeedType
      /\ Cardinality(got[main.m]) = 1 => OneVersion(got[main.m])
      /\ job.kind = "container" /\ main.m <= Last
      /\ what \in Handed /\ feed[main.m].queue = <<what>> /\ <<>> \in Queues
  <2>1. /\ main.m \in Members /\ got[main.m] \in SUBSET Versions /\ feed[main.m] \in FeedType
        /\ job.kind = "container" /\ main.m <= Last
    BY MineTyped DEF Copy, At, IInv, Typed, Placed, JobType, Kinds
  <2>2. PICK v \in Handed : feed[main.m].queue = <<v>> BY <2>1 DEF Copy, FeedType, Queues
  <2>3. what = v BY <2>2
  <2> QED BY <2>1, <2>2, <2>3, Singleton DEF Queues
<1>21. what >= 0 => what \in Versions BY <1>0 DEF Handed, Over, Broken, Versions
<1> HIDE DEF what
<1>1. /\ main' = r /\ main.pc = "copy"
      /\ feed' = [feed EXCEPT ![main.m].queue = <<>>]
      /\ got' = [got EXCEPT ![main.m] = IF what >= 0 THEN @ \cup {what} ELSE @]
      /\ UNCHANGED <<job, file, own, disk>>
  BY <1>0 DEF Copy, At, Goto
<1>2. Typed /\ Placed /\ main \in MainType BY DEF IInv, Typed
<1>3. r \in MainType /\ r.pc = next
      /\ r.m = main.m /\ r.digest = main.digest /\ r.out = main.out
  BY <1>0, <1>1, <1>2 DEF MainType, Places, Placed
<1> HIDE DEF r
<1>4. Typed' BY <1>0, <1>21, <1>1, <1>2, <1>3 DEF Typed, FeedType
<1>5. Stamped' BY <1>0, <1>1, <1>3 DEF IInv, Stamped, Typed, Members
<1>6. Placed' BY <1>0, <1>1, <1>3 DEF IInv, Placed
<1>7. Digested' BY <1>0, <1>1, <1>3 DEF IInv, Digested, Placed
<1>8. Bytes'
  <2>1. \A m \in Members :
          got'[m] \subseteq got[m] \cup (IF m = main.m THEN {what} \cap Versions ELSE {})
    BY <1>0, <1>21, <1>1, <1>2 DEF Typed
  <2>2. what \in Versions => Between(what) BY <1>0 DEF IInv, Bytes
  <2>3. \A m \in Members : /\ feed'[m].pc = feed[m].pc /\ feed'[m].hold = feed[m].hold
                           /\ feed'[m].queue \in {feed[m].queue, <<>>}
    BY <1>0, <1>1, <1>2 DEF Typed, FeedType
  <2>4. file[1].content \in Int BY FirstTyped DEF FileType, Versions
  <2> QED BY <1>1, <1>2, <1>3, <1>4, <2>1, <2>2, <2>3, <2>4, BytesGrow, SMTT(30) DEF Typed, MainType
<1>9. Handing' BY <1>0, <1>1, <1>3 DEF IInv, Handing, Typed, Over, Broken
<1>10. Single'
  BY <1>0, <1>1, <1>3, PreparationAssumption DEF IInv, PreparationAssumption, Single,
     Passed, Placed, Typed, Members, MainType
<1>11. Sealed' BY <1>0, <1>1, <1>3 DEF IInv, Sealed, Placed
<1>12. Rows'
  BY <1>1, <1>2, <1>3, RowsStay, PreparationAssumption DEF Accepted, MainType,
     PreparationAssumption
<1>13. Done' BY <1>0, <1>1, <1>3 DEF IInv, Done, Placed
<1>14. Whole' BY <1>0, <1>1, <1>3 DEF IInv, Whole, Done
<1>15. Sound' BY <1>0, <1>1, <1>3 DEF IInv, Sound, Done, Placed
<1> QED
  BY <1>4, <1>5, <1>6, <1>7, <1>8, <1>9, <1>10, <1>11, <1>12, <1>13, <1>14, <1>15 DEF IInv

\* The insertion before failed.
LEMMA AcceptFailsKeeps ==
    ASSUME IInv, Accept, own.failed
    PROVE  IInv'
PROOF
<1> DEFINE r == [main EXCEPT !.pc = "unwind"]
<1>1. /\ main' = r /\ main.pc = "accept" /\ own.job = None
      /\ UNCHANGED <<job, file, feed, own, got, disk>>
  BY DEF Accept, At, Goto
<1>2. Typed /\ Placed /\ main \in MainType BY DEF IInv, Typed
<1>3. r \in MainType /\ r.pc = "unwind"
      /\ r.m = main.m /\ r.digest = main.digest /\ r.out = main.out
  BY <1>1, <1>2, PreparationAssumption DEF MainType, Places, Placed, PreparationAssumption
<1> HIDE DEF r
<1>4. Typed' BY <1>1, <1>2, <1>3 DEF Typed
<1>5. Stamped' BY <1>1, <1>3 DEF IInv, Stamped, Typed, Members
<1>6. Placed' BY <1>1, <1>3 DEF IInv, Placed
<1>7. Digested' BY <1>1, <1>3 DEF IInv, Digested, Placed
<1>8. Bytes' BY <1>1, <1>3, BytesStay
<1>9. Handing' BY <1>1 DEF IInv, Handing
<1>10. Single' BY <1>1, <1>3 DEF IInv, Single, Passed
<1>11. Sealed' BY <1>1, <1>3 DEF IInv, Sealed, Placed
<1>12. Rows'
  BY <1>1, <1>2, <1>3, RowsStay, PreparationAssumption DEF Accepted, MainType,
     PreparationAssumption
<1>13. Done' BY <1>1, <1>3 DEF IInv, Done, Placed
<1>14. Whole' BY <1>1, <1>3, WholeStays DEF IInv, Typed, DiskType
<1>15. Sound' BY <1>1, <1>3, SoundStays
<1> QED
  BY <1>4, <1>5, <1>6, <1>7, <1>8, <1>9, <1>10, <1>11, <1>12, <1>13, <1>14, <1>15 DEF IInv

\* A member's names are handed over.
LEMMA AcceptTakesKeeps ==
    ASSUME IInv, Accept, ~own.failed
    PROVE  IInv'
PROOF
<1> DEFINE r == [main EXCEPT !.pc = "close"]
<1>0. main.m \in Members BY MineTyped DEF Accept, At, IInv, Placed
<1>1. /\ main' = r /\ main.pc = "accept" /\ own.job = None
      /\ own' = [own EXCEPT !.job = main.m]
      /\ UNCHANGED <<job, file, feed, got, disk>>
  BY <1>0 DEF Accept, At, Goto
<1>2. Typed /\ Placed /\ main \in MainType BY DEF IInv, Typed
<1>3. r \in MainType /\ r.pc = "close"
      /\ r.m = main.m /\ r.digest = main.digest /\ r.out = main.out
  BY <1>0, <1>1, <1>2 DEF MainType, Places, Placed
<1> HIDE DEF r
<1>4. Typed' BY <1>0, <1>1, <1>2, <1>3 DEF Typed, OwnType
<1>5. Stamped' BY <1>0, <1>1, <1>3 DEF IInv, Stamped, Typed, Members
<1>6. Placed' BY <1>0, <1>1, <1>3 DEF IInv, Placed
<1>7. Digested' BY <1>0, <1>1, <1>3 DEF IInv, Digested, Placed
<1>8. Bytes' BY <1>1, <1>3, BytesStay
<1>9. Handing' BY <1>1 DEF IInv, Handing
<1>10. Single' BY <1>0, <1>1, <1>3 DEF IInv, Single, Passed
<1>11. Sealed' BY <1>0, <1>1, <1>3 DEF IInv, Sealed, Placed
<1>12. Rows'
  <2>1. own'.job = main.m /\ own'.rows = own.rows /\ own'.dups = own.dups /\ own'.failed = own.failed
    BY <1>0, <1>1, <1>2 DEF Typed, OwnType
  <2>2. main.m # None /\ main.m \in Int
    BY <1>0, PreparationAssumption DEF Members, PreparationAssumption
  <2>3. Inserted' = Inserted /\ own'.job = Accepted'
    BY <1>1, <1>3, <2>1, <2>2 DEF Inserted, Accepted
  <2> QED BY <1>1, <1>3, <2>1, <2>2, <2>3 DEF IInv, Rows, Indexed, Unique
<1>13. Done' BY <1>0, <1>1, <1>3 DEF IInv, Done, Placed
<1>14. Whole'
  <2>1. own'.rows = own.rows BY <1>1, <1>2 DEF Typed, OwnType
  <2> QED BY <1>1, <1>3, <2>1, WholeStays
<1>15. Sound' BY <1>1, <1>3, SoundStays
<1> QED
  BY <1>4, <1>5, <1>6, <1>7, <1>8, <1>9, <1>10, <1>11, <1>12, <1>13, <1>14, <1>15 DEF IInv

LEMMA AcceptKeeps ==
    ASSUME IInv, Accept
    PROVE  IInv'
PROOF BY AcceptFailsKeeps, AcceptTakesKeeps

\* ClassDirectory.add turns the first owners among k members into those among
\* k + 1.
LEMMA RowsGrow ==
    ASSUME NEW k \in Nat, k + 1 \in Members, NEW rows \in [Names -> {None} \cup Members],
           Indexed(rows, k)
    PROVE  Indexed([n \in Names |-> IF n \in job.classes[k + 1] /\ rows[n] = None THEN k + 1
                                   ELSE rows[n]], k + 1)
PROOF
<1> DEFINE new == [n \in Names |-> IF n \in job.classes[k + 1] /\ rows[n] = None THEN k + 1
                                   ELSE rows[n]]
<1>0. k + 1 # None BY PreparationAssumption DEF PreparationAssumption
<1>1. SUFFICES ASSUME NEW n \in Names
               PROVE  /\ new[n] = None <=> \A j \in 1..(k + 1) : n \notin job.classes[j]
                      /\ new[n] # None =>
                           /\ new[n] \in 1..(k + 1) /\ n \in job.classes[new[n]]
                           /\ \A j \in 1..(new[n] - 1) : n \notin job.classes[j]
  BY DEF Indexed
<1>2. /\ rows[n] = None <=> \A j \in 1..k : n \notin job.classes[j]
      /\ rows[n] # None => /\ rows[n] \in 1..k /\ n \in job.classes[rows[n]]
                           /\ \A j \in 1..(rows[n] - 1) : n \notin job.classes[j]
  BY DEF Indexed
<1>3. new[n] = IF n \in job.classes[k + 1] /\ rows[n] = None THEN k + 1 ELSE rows[n] OBVIOUS
<1> HIDE DEF new
<1>4. CASE n \in job.classes[k + 1] /\ rows[n] = None
  BY <1>0, <1>2, <1>3, <1>4
<1>5. CASE rows[n] # None
  BY <1>0, <1>2, <1>3, <1>5
<1>6. CASE rows[n] = None /\ n \notin job.classes[k + 1]
  BY <1>0, <1>2, <1>3, <1>6
<1> QED BY <1>4, <1>5, <1>6

\* It notes every class that a member before has.
LEMMA DuplicatesGrow ==
    ASSUME NEW k \in Nat, k + 1 \in Members, NEW rows, Indexed(rows, k), Unique(k),
           \A m \in Members : job.classes[m] \subseteq Names,
           NEW dups, own.dups \cup {n \in job.classes[k + 1] : rows[n] # None} \subseteq dups
    PROVE  \A i, j \in 1..(k + 1) : i # j => job.classes[i] \cap job.classes[j] \subseteq dups
PROOF
<1>1. \A i \in 1..k : job.classes[i] \cap job.classes[k + 1] \subseteq dups
  BY DEF Indexed
<1>2. \A i, j \in 1..k : i # j => job.classes[i] \cap job.classes[j] \subseteq dups
  BY DEF Unique
<1>3. \A i \in 1..(k + 1) : i \in 1..k \/ i = k + 1 OBVIOUS
<1> QED BY <1>1, <1>2, <1>3

\* The thread of the directory inserts the names of one member.
LEMMA InsertKeeps ==
    ASSUME IInv, Insert
    PROVE  IInv'
PROOF
<1> DEFINE k == own.job - 1
           new == job.classes[own.job]
           rows == [n \in Names |-> IF n \in new /\ own.rows[n] = None THEN own.job ELSE own.rows[n]]
           fits == Cardinality(Owned(rows)) <= Budget
           dups == own.dups \cup IF fits THEN {n \in new : own.rows[n] # None} ELSE {}
<1>1. /\ own.job # None
      /\ own' = [job |-> None, rows |-> rows, failed |-> own.failed \/ ~fits, dups |-> dups]
      /\ UNCHANGED <<job, file, main, feed, got, disk>>
  BY DEF Insert
<1> DEFINE broken == own.failed \/ ~fits
<1>2. /\ Typed /\ own \in OwnType /\ job \in JobType BY DEF IInv, Typed
<1>3. /\ own.job \in Members /\ own.rows \in [Names -> {None} \cup Members] /\ own.dups \subseteq Names
      /\ \A m \in Members : job.classes[m] \subseteq Names
      /\ k \in Nat /\ k + 1 = own.job /\ broken \in BOOLEAN
  BY <1>1, <1>2, PreparationAssumption DEF OwnType, JobType, Members, PreparationAssumption
<1>21. rows \in [Names -> {None} \cup Members] /\ dups \subseteq Names BY <1>3
<1>22. /\ own'.job = None /\ own'.rows = rows /\ own'.dups = dups /\ own'.failed = broken
      /\ own' \in OwnType
  BY <1>1, <1>3, <1>21 DEF OwnType
<1>23. ~broken => dups = own.dups \cup {n \in job.classes[own.job] : own.rows[n] # None} OBVIOUS
<1>24. rows = [n \in Names |-> IF n \in job.classes[k + 1] /\ own.rows[n] = None THEN k + 1
                               ELSE own.rows[n]]
  BY <1>3
<1> HIDE DEF k, rows, dups, broken
<1>4. Typed' BY <1>1, <1>2, <1>22 DEF Typed
<1>5. Stamped' BY <1>1 DEF IInv, Stamped
<1>6. Placed' BY <1>1 DEF IInv, Placed
<1>7. Digested' BY <1>1 DEF IInv, Digested
<1>8. Bytes' BY <1>1, BytesStay
<1>9. Handing' BY <1>1 DEF IInv, Handing
<1>10. Single' BY <1>1 DEF IInv, Single, Passed
<1>11. Sealed' BY <1>1 DEF IInv, Sealed
<1>12. Rows'
  <2>1. SUFFICES ASSUME main.pc # "dead" PROVE Rows' BY <1>1 DEF Rows
  <2>2. own.job = Accepted /\ Indexed(own.rows, k) /\ (own.failed \/ Unique(k))
    BY <1>1, <1>3, <2>1 DEF IInv, Rows, Inserted
  <2>3. Indexed(rows, own.job) BY <1>3, <1>24, <2>2, RowsGrow
  <2>4. ~broken => Unique(k) BY <2>2 DEF broken
  <2>5. ~broken => \A i, j \in 1..own.job :
                     i # j => job.classes[i] \cap job.classes[j] \subseteq dups
    BY <1>3, <1>23, <2>2, <2>4, DuplicatesGrow
  <2>6. Inserted' = own.job BY <1>1, <1>22, <2>2 DEF Inserted, Accepted
  <2>8. /\ Indexed(own'.rows, Inserted')
        /\ \/ own'.failed
           \/ \A i, j \in 1..Inserted' :
                  i # j => job'.classes[i] \cap job'.classes[j] \subseteq own'.dups
    BY <1>1, <1>22, <2>3, <2>5, <2>6
  <2> QED BY <1>1, <1>22, <2>8 DEF Rows, Unique, Indexed
<1>13. Done' BY <1>1, <1>22 DEF IInv, Done, Disjoint
<1>14. Whole' BY <1>1 DEF IInv, Done, Whole
<1>15. Sound' BY <1>1, SoundStays
<1> QED
  BY <1>4, <1>5, <1>6, <1>7, <1>8, <1>9, <1>10, <1>11, <1>12, <1>13, <1>14, <1>15 DEF IInv

\* A producer reads a block, reaches the end, or fails.
LEMMA ProduceKeeps ==
    ASSUME IInv, NEW m \in Members, Produce(m)
    PROVE  IInv'
PROOF
<1>20. PICK what \in IF feed[m].left = 0 THEN {Over} ELSE {file[1].content, Broken} :
        feed' = [feed EXCEPT ![m].pc = "put", ![m].hold = what,
                             ![m].left = IF what >= 0 THEN @ - 1 ELSE @]
  BY DEF Produce
<1> DEFINE q == feed[m]
           left == IF what >= 0 THEN q.left - 1 ELSE q.left
           f == [q EXCEPT !.pc = "put", !.hold = what, !.left = left]
<1>1. /\ feed' = [feed EXCEPT ![m] = f] /\ q.pc = "read"
      /\ UNCHANGED <<job, file, main, own, got, disk>>
  BY <1>20 DEF Produce
<1>2. /\ Typed /\ q \in FeedType /\ file[1].content \in Versions /\ main \in MainType
      /\ \A n \in Members : got[n] \subseteq Versions
  BY FirstTyped DEF IInv, Typed, FileType
<1>25. /\ what \in Handed
       /\ what \in Versions => what = file[1].content
       /\ left \in 0..Blocks
  BY <1>20, <1>2, PreparationAssumption
     DEF FeedType, Handed, Over, Broken, Versions, PreparationAssumption
<1> HIDE DEF left
<1>3. /\ f \in FeedType
      /\ f.pc = "put" /\ f.hold = what /\ what \in Handed /\ f.queue = q.queue
      /\ what \in Versions => what = file[1].content
  BY <1>1, <1>2, <1>25 DEF FeedType
<1> HIDE DEF f
<1>4. Typed' BY <1>1, <1>2, <1>3 DEF Typed
<1>5. Stamped' BY <1>1 DEF IInv, Stamped
<1>6. Placed' BY <1>1 DEF IInv, Placed
<1>7. Digested' BY <1>1 DEF IInv, Digested
<1>8. Bytes'
  <2>1. job.kind = "container" /\ q.pc # "none" =>
            /\ main.digest # None /\ main.digest \in Versions /\ main.digest <= file[1].content
            /\ q.hold \in Versions => Between(q.hold)
    BY <1>2 DEF IInv, Bytes, Digested, MainType
  <2>2. job.kind = "container" => (what \in Versions => Between(what))
    BY <1>1, <1>2, <1>3, <2>1 DEF Between, Versions, Over, Broken, FeedType, Handed, Queues
  <2>3. \A n \in Members : feed'[n] = IF n = m THEN f ELSE feed[n] BY <1>1, <1>2 DEF Typed
  <2> QED BY <1>1, <1>2, <1>3, <2>2, <2>3, BytesGrow DEF MainType, Versions
<1>9. Handing'
  <2>1. \A n \in Members : feed'[n] = IF n = m THEN f ELSE feed[n] BY <1>1, <1>2 DEF Typed
  <2> QED BY <1>3, <2>1 DEF IInv, Handing, Handed
<1>10. Single' BY <1>1 DEF IInv, Single, Passed
<1>11. Sealed' BY <1>1 DEF IInv, Sealed
<1>12. Rows' BY <1>1, RowsStay DEF Accepted
<1>13. Done' BY <1>1 DEF IInv, Done, Disjoint
<1>14. Whole' BY <1>1, WholeStays
<1>15. Sound' BY <1>1, SoundStays
<1> QED
  BY <1>4, <1>5, <1>6, <1>7, <1>8, <1>9, <1>10, <1>11, <1>12, <1>13, <1>14, <1>15 DEF IInv

\* A producer hands its block over.
LEMMA PutKeeps ==
    ASSUME IInv, NEW m \in Members, Put(m)
    PROVE  IInv'
PROOF
<1> DEFINE q == feed[m]
           f == [q EXCEPT !.queue = <<q.hold>>, !.hold = None,
                          !.pc = IF q.hold >= 0 THEN "read" ELSE "ended"]
<1>20. q.pc = "put" /\ q.hold \in Handed BY DEF Put, IInv, Handing, Handed
<1>1. /\ feed' = [feed EXCEPT ![m] = f] /\ q.pc = "put"
      /\ UNCHANGED <<job, file, main, own, got, disk>>
  BY DEF Put
<1>2. /\ Typed /\ q \in FeedType /\ file[1].content \in Versions /\ main \in MainType
      /\ \A n \in Members : got[n] \subseteq Versions
  BY FirstTyped DEF IInv, Typed, FileType
<1>25. <<q.hold>> \in Queues /\ None \notin Versions
  BY <1>20, PreparationAssumption DEF Queues, Versions, PreparationAssumption
<1>3. /\ f \in FeedType
      /\ f.pc \in {"read", "ended"} /\ f.hold = None /\ f.queue = <<q.hold>>
      /\ None \notin Versions
  BY <1>1, <1>2, <1>25 DEF FeedType
<1> HIDE DEF f
<1>4. Typed' BY <1>1, <1>2, <1>3 DEF Typed
<1>5. Stamped' BY <1>1 DEF IInv, Stamped
<1>6. Placed' BY <1>1 DEF IInv, Placed
<1>7. Digested' BY <1>1 DEF IInv, Digested
<1>8. Bytes'
  <2>1. job.kind = "container" /\ q.pc # "none" =>
            /\ main.digest # None /\ main.digest \in Versions /\ main.digest <= file[1].content
            /\ q.hold \in Versions => Between(q.hold)
    BY <1>2 DEF IInv, Bytes, Digested, MainType
  <2>2. job.kind = "container" => \A v \in Versions : f.queue = <<v>> => Between(v)
    BY <1>1, <1>2, <1>3, <2>1 DEF Between, Versions, Over, Broken, FeedType, Handed, Queues
  <2>3. \A n \in Members : feed'[n] = IF n = m THEN f ELSE feed[n] BY <1>1, <1>2 DEF Typed
  <2> QED BY <1>1, <1>2, <1>3, <2>2, <2>3, BytesGrow DEF MainType, Versions
<1>9. Handing'
  <2>1. \A n \in Members : feed'[n] = IF n = m THEN f ELSE feed[n] BY <1>1, <1>2 DEF Typed
  <2> QED BY <1>3, <2>1 DEF IInv, Handing, Handed
<1>10. Single' BY <1>1 DEF IInv, Single, Passed
<1>11. Sealed' BY <1>1 DEF IInv, Sealed
<1>12. Rows' BY <1>1, RowsStay DEF Accepted
<1>13. Done' BY <1>1 DEF IInv, Done, Disjoint
<1>14. Whole' BY <1>1, WholeStays
<1>15. Sound' BY <1>1, SoundStays
<1> QED
  BY <1>4, <1>5, <1>6, <1>7, <1>8, <1>9, <1>10, <1>11, <1>12, <1>13, <1>14, <1>15 DEF IInv

\* A producer is stopped while it waits.
LEMMA StopsKeeps ==
    ASSUME IInv, NEW m \in Members, Stops(m)
    PROVE  IInv'
PROOF
<1> DEFINE q == feed[m]
           f == [q EXCEPT !.pc = "ended", !.hold = None]
<1>1. /\ feed' = [feed EXCEPT ![m] = f] /\ q.pc = "put"
      /\ UNCHANGED <<job, file, main, own, got, disk>>
  BY DEF Stops
<1>2. /\ Typed /\ q \in FeedType /\ file[1].content \in Versions /\ main \in MainType
      /\ \A n \in Members : got[n] \subseteq Versions
  BY FirstTyped DEF IInv, Typed, FileType
<1>25. None \notin Versions BY PreparationAssumption DEF Versions, PreparationAssumption
<1>3. /\ f \in FeedType
      /\ f.pc = "ended" /\ f.hold = None /\ f.queue = q.queue
      /\ None \notin Versions
  BY <1>1, <1>2, <1>25 DEF FeedType
<1> HIDE DEF f
<1>4. Typed' BY <1>1, <1>2, <1>3 DEF Typed
<1>5. Stamped' BY <1>1 DEF IInv, Stamped
<1>6. Placed' BY <1>1 DEF IInv, Placed
<1>7. Digested' BY <1>1 DEF IInv, Digested
<1>8. Bytes'
  <2>1. job.kind = "container" /\ q.pc # "none" =>
            /\ main.digest # None /\ main.digest \in Versions /\ main.digest <= file[1].content
            /\ q.hold \in Versions => Between(q.hold)
    BY <1>2 DEF IInv, Bytes, Digested, MainType
  <2>2. job.kind = "container" => TRUE
    BY <1>1, <1>2, <1>3, <2>1 DEF Between, Versions, Over, Broken, FeedType, Handed, Queues
  <2>3. \A n \in Members : feed'[n] = IF n = m THEN f ELSE feed[n] BY <1>1, <1>2 DEF Typed
  <2> QED BY <1>1, <1>2, <1>3, <2>2, <2>3, BytesGrow DEF MainType, Versions
<1>9. Handing'
  <2>1. \A n \in Members : feed'[n] = IF n = m THEN f ELSE feed[n] BY <1>1, <1>2 DEF Typed
  <2> QED BY <1>3, <2>1 DEF IInv, Handing, Handed
<1>10. Single' BY <1>1 DEF IInv, Single, Passed
<1>11. Sealed' BY <1>1 DEF IInv, Sealed
<1>12. Rows' BY <1>1, RowsStay DEF Accepted
<1>13. Done' BY <1>1 DEF IInv, Done, Disjoint
<1>14. Whole' BY <1>1, WholeStays
<1>15. Sound' BY <1>1, SoundStays
<1> QED
  BY <1>4, <1>5, <1>6, <1>7, <1>8, <1>9, <1>10, <1>11, <1>12, <1>13, <1>14, <1>15 DEF IInv

\* The source is written in place.
LEMMA WriteKeeps ==
    ASSUME IInv, NEW m \in Members, Write(m)
    PROVE  IInv'
PROOF
<1>20. PICK tick \in {0, 1} :
        file' = [file EXCEPT ![m].content = @ + 1, ![m].stamp = @ + tick]
  BY DEF Write
<1> DEFINE q == file[m]
           g == [q EXCEPT !.content = @ + 1, !.stamp = @ + tick]
<1>1. /\ file' = [file EXCEPT ![m] = g] /\ q.content < MaxVersion /\ ~q.apart
      /\ UNCHANGED <<job, main, feed, own, got, disk>>
  BY <1>20 DEF Write, Changes
<1>2. /\ Typed /\ q \in FileType /\ main \in MainType /\ file[1] \in FileType /\ 1 \in Members
      /\ q.stamp <= q.content /\ \A n \in Members : got[n] \subseteq Versions
  BY <1>1, FirstTyped DEF IInv, Typed, Stamped
<1>25. /\ q.content \in Int /\ q.stamp \in Int /\ q.content + 1 \in Versions
       /\ q.stamp + tick \in Stamps /\ q.stamp + tick <= q.content + 1
  BY <1>20, <1>1, <1>2, PreparationAssumption, SMTT(30) DEF FileType, Versions, Stamps,
     PreparationAssumption
<1>26. g \in FileType /\ g.content = q.content + 1 /\ g.stamp = q.stamp + tick /\ g.apart = q.apart
  BY <1>1, <1>2, <1>25 DEF FileType
<1> HIDE DEF g
<1>3. /\ q.content <= g.content /\ g.stamp <= g.content + 1 /\ g \in FileType
      /\ ~g.apart => g.stamp <= g.content
  BY <1>20, <1>2, <1>25, <1>26
<1> HIDE DEF g
<1>31. \A n \in Members : file'[n] = IF n = m THEN g ELSE file[n] BY <1>1, <1>2 DEF Typed
<1>32. /\ file[1].content \in Versions /\ file'[1].content \in Versions
       /\ file[1].content <= file'[1].content
  BY <1>2, <1>3, <1>31 DEF FileType, Versions
<1>4. Typed' BY <1>1, <1>2, <1>3 DEF Typed
<1>5. Stamped' BY <1>3, <1>31 DEF IInv, Stamped
<1>6. Placed' BY <1>1 DEF IInv, Placed
<1>7. Digested' BY <1>1, <1>2, <1>32 DEF IInv, Digested, MainType, Versions
<1>8. Bytes' BY <1>1, <1>2, <1>32, BytesGrow DEF MainType, Versions
<1>9. Handing' BY <1>1 DEF IInv, Handing
<1>10. Single' BY <1>1 DEF IInv, Single, Passed
<1>11. Sealed' BY <1>1 DEF IInv, Sealed
<1>12. Rows' BY <1>1, RowsStay DEF Accepted
<1>13. Done' BY <1>1 DEF IInv, Done, Disjoint
<1>14. Whole' BY <1>1, WholeStays
<1>15. Sound' BY <1>1, SoundStays
<1> QED
  BY <1>4, <1>5, <1>6, <1>7, <1>8, <1>9, <1>10, <1>11, <1>12, <1>13, <1>14, <1>15 DEF IInv

\* The name of the source is given to another file.
LEMMA ReplaceKeeps ==
    ASSUME IInv, NEW m \in Members, Replace(m)
    PROVE  IInv'
PROOF
<1> DEFINE q == file[m]
           g == [q EXCEPT !.stamp = @ + 1, !.apart = Opened(m),
                          !.content = IF Opened(m) THEN @ ELSE @ + 1]
<1>1. /\ file' = [file EXCEPT ![m] = g] /\ q.content < MaxVersion /\ ~q.apart
      /\ UNCHANGED <<job, main, feed, own, got, disk>>
  BY DEF Replace, Changes
<1>2. /\ Typed /\ q \in FileType /\ main \in MainType /\ file[1] \in FileType /\ 1 \in Members
      /\ q.stamp <= q.content /\ \A n \in Members : got[n] \subseteq Versions
  BY <1>1, FirstTyped DEF IInv, Typed, Stamped
<1>25. /\ q.content \in Int /\ q.stamp \in Int /\ q.content + 1 \in Versions
       /\ q.stamp + 1 \in Stamps
  BY <1>1, <1>2, PreparationAssumption, SMTT(30) DEF FileType, Versions, Stamps, PreparationAssumption
<1>27. Opened(m) \in BOOLEAN BY DEF Opened
<1>26. /\ g \in FileType /\ g.content = (IF Opened(m) THEN q.content ELSE q.content + 1)
       /\ g.stamp = q.stamp + 1 /\ g.apart = Opened(m)
  BY <1>1, <1>2, <1>25, <1>27 DEF FileType
<1> HIDE DEF g
<1>3. /\ q.content <= g.content /\ g.stamp <= g.content + 1 /\ g \in FileType
      /\ ~g.apart => g.stamp <= g.content
  BY <1>2, <1>25, <1>26, <1>27
<1> HIDE DEF g
<1>31. \A n \in Members : file'[n] = IF n = m THEN g ELSE file[n] BY <1>1, <1>2 DEF Typed
<1>32. /\ file[1].content \in Versions /\ file'[1].content \in Versions
       /\ file[1].content <= file'[1].content
  BY <1>2, <1>3, <1>31 DEF FileType, Versions
<1>4. Typed' BY <1>1, <1>2, <1>3 DEF Typed
<1>5. Stamped' BY <1>3, <1>31 DEF IInv, Stamped
<1>6. Placed' BY <1>1 DEF IInv, Placed
<1>7. Digested' BY <1>1, <1>2, <1>32 DEF IInv, Digested, MainType, Versions
<1>8. Bytes' BY <1>1, <1>2, <1>32, BytesGrow DEF MainType, Versions
<1>9. Handing' BY <1>1 DEF IInv, Handing
<1>10. Single' BY <1>1 DEF IInv, Single, Passed
<1>11. Sealed' BY <1>1 DEF IInv, Sealed
<1>12. Rows' BY <1>1, RowsStay DEF Accepted
<1>13. Done' BY <1>1 DEF IInv, Done, Disjoint
<1>14. Whole' BY <1>1, WholeStays
<1>15. Sound' BY <1>1, SoundStays
<1> QED
  BY <1>4, <1>5, <1>6, <1>7, <1>8, <1>9, <1>10, <1>11, <1>12, <1>13, <1>14, <1>15 DEF IInv

\* The invariant holds initially.
LEMMA InitHolds ==
    ASSUME Init
    PROVE  IInv
PROOF
<1> USE PreparationAssumption DEF PreparationAssumption, Init
<1>1. Typed
  BY DEF Typed, JobType, FileType, Stamps, Versions, MainType, Places, FeedType, Queues,
     Handed, Quiet,
     OwnType, DiskType
<1>2. Stamped BY DEF Stamped
<1>3. Placed BY DEF Placed
<1>4. Digested BY DEF Digested
<1>5. Bytes
  <2>1. \A m \in Members : /\ got[m] = {} /\ feed[m].pc = "none" /\ feed[m].hold = None
                           /\ feed[m].queue = <<>>
    BY DEF Quiet
  <2>2. None \notin Versions BY DEF Versions
  <2>3. \A v : <<v>> # <<>> OBVIOUS
  <2> QED BY <2>1, <2>2, <2>3 DEF Bytes
<1>6. Handing BY DEF Handing, Quiet
<1>7. Single BY DEF Single, Passed, Members
<1>8. Sealed BY DEF Sealed
<1>9. Rows BY DEF Rows, Inserted, Accepted, Indexed, Unique
<1>10. Done BY DEF Done
<1>11. Whole BY DEF Whole
<1>12. Sound BY DEF Sound
<1> QED
  BY <1>1, <1>2, <1>3, <1>4, <1>5, <1>6, <1>7, <1>8, <1>9, <1>10, <1>11, <1>12 DEF IInv

\* A stutter keeps it.
LEMMA StutterKeeps ==
    ASSUME IInv, UNCHANGED vars
    PROVE  IInv'
PROOF
<1>1. UNCHANGED <<job, file, main, feed, own, got, disk>> BY DEF vars
<1>2. Typed' BY <1>1 DEF IInv, Typed
<1>3. Stamped' BY <1>1 DEF IInv, Stamped
<1>4. Placed' BY <1>1 DEF IInv, Placed
<1>5. Digested' BY <1>1 DEF IInv, Digested
<1>6. Bytes' BY <1>1, BytesStay
<1>7. Handing' BY <1>1 DEF IInv, Handing
<1>8. Single' BY <1>1 DEF IInv, Single, Passed
<1>9. Sealed' BY <1>1 DEF IInv, Sealed
<1>10. Rows' BY <1>1, RowsStay DEF Accepted
<1>11. Done' BY <1>1 DEF IInv, Done, Disjoint
<1>12. Whole' BY <1>1, WholeStays
<1>13. Sound' BY <1>1, SoundStays
<1> QED
  BY <1>2, <1>3, <1>4, <1>5, <1>6, <1>7, <1>8, <1>9, <1>10, <1>11, <1>12, <1>13 DEF IInv

\* Every step keeps it.
LEMMA NextKeeps ==
    ASSUME IInv, [Next]_vars
    PROVE  IInv'
PROOF
<1>1. CASE Enter BY <1>1, EnterKeeps
<1>2. CASE Open BY <1>2, OpenKeeps
<1>3. CASE Hash BY <1>3, HashKeeps
<1>4. CASE Advance BY <1>4, AdvanceKeeps
<1>5. CASE Stat BY <1>5, StatKeeps
<1>6. CASE Read BY <1>6, ReadKeeps
<1>7. CASE ReadEnds BY <1>7, ReadEndsKeeps
<1>8. CASE Copy BY <1>8, CopyKeeps
<1>9. CASE Accept BY <1>9, AcceptKeeps
<1>10. CASE Close BY <1>10, CloseKeeps
<1>11. CASE Join BY <1>11, JoinKeeps
<1>12. CASE Verify BY <1>12, VerifyKeeps
<1>13. CASE Rehash BY <1>13, RehashKeeps
<1>14. CASE Reverify BY <1>14, ReverifyKeeps
<1>15. CASE Exit BY <1>15, ExitKeeps
<1>16. CASE Publish BY <1>16, PublishKeeps
<1>17. CASE Answer BY <1>17, AnswerKeeps
<1>18. CASE Json BY <1>18, JsonKeeps
<1>19. CASE Unwind BY <1>19, UnwindKeeps
<1>20. CASE End BY <1>20, EndKeeps
<1>21. CASE Insert BY <1>21, InsertKeeps
<1>22. CASE Fail BY <1>22, FailKeeps
<1>23. CASE Die BY <1>23, DieKeeps
<1>24. ASSUME NEW m \in Members, Produce(m) PROVE IInv' BY <1>24, ProduceKeeps
<1>25. ASSUME NEW m \in Members, Put(m) PROVE IInv' BY <1>25, PutKeeps
<1>26. ASSUME NEW m \in Members, Stops(m) PROVE IInv' BY <1>26, StopsKeeps
<1>27. ASSUME NEW m \in Members, Write(m) PROVE IInv' BY <1>27, WriteKeeps
<1>28. ASSUME NEW m \in Members, Replace(m) PROVE IInv' BY <1>28, ReplaceKeeps
<1>29. CASE UNCHANGED vars BY <1>29, StutterKeeps
<1> QED
  BY <1>1, <1>2, <1>3, <1>4, <1>5, <1>6, <1>7, <1>8, <1>9, <1>10, <1>11, <1>12, <1>13,
     <1>14, <1>15, <1>16, <1>17, <1>18, <1>19, <1>20, <1>21, <1>22, <1>23, <1>24, <1>25,
     <1>26, <1>27, <1>28, <1>29 DEF Next, Main, Producer

\* IInv is an invariant.
LEMMA Invariant == Spec => []IInv
PROOF
<1>1. Init => IInv BY InitHolds
<1>2. IInv /\ [Next]_vars => IInv' BY NextKeeps
<1> QED BY <1>1, <1>2, PTL DEF Spec

\* Every variable of a preparation keeps its type.
THEOREM PreparationTypeOK == Spec => []TypeOK
PROOF
<1>1. IInv => TypeOK
  BY DEF IInv, Typed, TypeOK, JobType, FileType, Stamps, MainType, FeedType, Queues,
     Handed, OwnType,
     DiskType
<1> QED BY <1>1, Invariant, PTL

\* The rows hold the owner that First chooses.
LEMMA FirstIndexed ==
    ASSUME NEW rows, Indexed(rows, Last), NEW m \in Members, NEW n \in Names, n \in job.classes[m]
    PROVE  rows[n] = First(n)
PROOF
<1> DEFINE P(k) == n \in job.classes[k] /\ \A j \in 1..(k - 1) : n \notin job.classes[j]
<1>1. rows[n] \in Members /\ P(rows[n]) BY DEF Indexed, Members
<1>2. \A j, k \in Members : P(j) /\ P(k) => j = k
  <2> SUFFICES ASSUME NEW j \in Members, NEW k \in Members, P(j), P(k), j # k PROVE FALSE
    OBVIOUS
  <2>1. j \in 1..(k - 1) \/ k \in 1..(j - 1)
    BY PreparationAssumption DEF Members, PreparationAssumption
  <2> QED BY <2>1
<1>3. First(n) = CHOOSE k \in Members : P(k) BY DEF First
<1> HIDE DEF P
<1> QED BY <1>1, <1>2, <1>3

\* However the threads of the worker interleave and whenever the source is
\* written or replaced, owners.sqlite is published only with the first owner of
\* every class (preparation_directory.py, ClassDirectory.add), and with bytes of
\* one version of each member's file, that of the digest for a container
\* (containers.py, stable_archive).
THEOREM PreparationPublishedWhole == Spec => []PublishedWhole
PROOF
<1>1. IInv => PublishedWhole
  <2> SUFFICES ASSUME IInv, disk.owners = "published" PROVE PublishedWhole
    BY DEF PublishedWhole
  <2>1. /\ Indexed(own.rows, Last)
        /\ \A m \in Members : /\ OneVersion(got[m])
                              /\ job.kind = "container" => got[m] = {main.digest}
    BY DEF IInv, Whole
  <2>4. \A m \in Members : job.classes[m] \subseteq Names
    BY PreparationAssumption DEF IInv, Typed, JobType, Members, PreparationAssumption
  <2>2. \A m \in Members : \A n \in job.classes[m] : own.rows[n] = First(n)
    BY <2>1, <2>4, FirstIndexed
  <2>3. ASSUME NEW m \in Members
        PROVE  \E v \in Versions : got[m] = {v} /\ (job.kind = "container" => v = main.digest)
    <3>1. PICK v \in Versions : got[m] = {v} BY <2>1 DEF OneVersion
    <3>2. job.kind = "container" => main.digest \in {v} BY <2>1, <3>1
    <3> QED BY <3>1, <3>2
  <2> QED BY <2>2, <2>3 DEF PublishedWhole
<1> QED BY <1>1, Invariant, PTL

\* An answer "ok" of prepare is given only when prepared.json and owners.sqlite
\* are whole, no class has two owners, and the bytes are those of the hash that
\* was asked for (dex_worker.analyze); of an artifact, when its copy is of one
\* version (analysis_session.snapshot).
THEOREM PreparationReadySound == Spec => []ReadySound
PROOF
<1>1. IInv => ReadySound
  <2> SUFFICES ASSUME IInv, main.out = "ok" PROVE ReadySound
    BY DEF ReadySound
  <2>1. /\ job.kind # "artifact" => disk.owners = "published" /\ disk.json = "whole" /\ Disjoint
        /\ job.kind = "artifact" => OneVersion(got[1])
        /\ job.bound => \A m \in Members : got[m] = {0}
    BY DEF IInv, Sound
  <2>2. job.kind = "artifact" => Cardinality(got[1]) = 1
    <3> SUFFICES ASSUME job.kind = "artifact" PROVE Cardinality(got[1]) = 1
      OBVIOUS
    <3>1. PICK v \in Versions : got[1] = {v} BY <2>1 DEF OneVersion
    <3> QED BY <3>1, FS_Singleton
  <2> QED BY <2>1, <2>2 DEF ReadySound, Disjoint
<1> QED BY <1>1, Invariant, PTL

=============================================================================
