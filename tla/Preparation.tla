----------------------------- MODULE Preparation -----------------------------
(***************************************************************************)
(* How a worker turns its input into files it owns: analysis_session       *)
(* .snapshot for an artifact; dex_worker.analyze with prepare_bundle,      *)
(* containers.selected_dex and its prefetching readers, and                *)
(* preparation_directory.py for an analysis, which ends in owners.sqlite   *)
(* and prepared.json.                                                      *)
(*                                                                         *)
(* Threads: main, one producer for each opened member of a container, and  *)
(* the owner of the SQLite directory.  Somebody else may change the source *)
(* at any time, in place or by replacing it, and a write in place may be   *)
(* too quick for the time stamps that os.fstat reports.  Contents are      *)
(* version numbers; a write never brings an old content back.              *)
(***************************************************************************)
EXTENDS Integers, Sequences, FiniteSets

CONSTANTS
    Last,       \* the members are 1..Last
    Blocks,     \* blocks of a member
    Names,      \* class names
    Layouts,    \* which classes the members may define
    Budget,     \* metadata that fits, as a number of classes
    MaxVersion, \* bound on the changes of the source
    None

ASSUME PreparationAssumption ==
    /\ Last \in Nat \ {0} /\ Blocks \in Nat \ {0} /\ Budget \in Nat
    /\ Layouts \subseteq [1..Last -> SUBSET Names]
    /\ MaxVersion \in Nat /\ None \notin Int \cup {"ok"}

Members == 1..Last
Kinds == {"artifact", "container", "set"}

VARIABLES
    job,   \* [kind, bound: a hash is expected (expected_sha256), classes]
    file,  \* file -> [content, stamp, apart]: what its handle reads, what its path tells
    main,  \* the main thread
    feed,  \* member -> its producer and the queue of one block
    own,   \* the thread of the directory: its job, rows, duplicates
    got,   \* member -> versions of the bytes copied
    disk   \* [owners, json]

vars == <<job, file, main, feed, own, got, disk>>

\* What a producer hands over besides the version of a block.
Over == -1
Broken == -2

Quiet == [pc |-> "none", left |-> Blocks, hold |-> None, queue |-> <<>>, stop |-> FALSE]

Init ==
    /\ job \in [kind : Kinds, bound : BOOLEAN, classes : Layouts]
    /\ job.kind = "artifact" => ~job.bound
    /\ file = [m \in Members |-> [content |-> 0, stamp |-> 0, apart |-> FALSE]]
    /\ main = [pc |-> "enter", m |-> 1, next |-> 1, left |-> Blocks, before |-> None,
               digest |-> None, out |-> None]
    /\ feed = [m \in Members |-> Quiet]
    /\ own = [job |-> None, rows |-> [n \in Names |-> None], dups |-> {}, failed |-> FALSE]
    /\ got = [m \in Members |-> {}]
    /\ disk = [owners |-> "none", json |-> "none"]

\* A container is one file; the files of a set are its members.
File(m) == IF job.kind = "set" THEN m ELSE 1
Mine == file[File(main.m)]
At(place) == main.pc = place
Goto(place) == main' = [main EXCEPT !.pc = place]
Live(m) == feed[m].pc \in {"read", "put"}
Opened(f) == IF job.kind = "set" THEN main.pc = "read" /\ main.m = f
                                 ELSE main.pc \notin {"enter", "open"}

-----------------------------------------------------------------------------

Changes(f) ==
    /\ f = 1 \/ job.kind = "set"
    /\ file[f].content < MaxVersion /\ ~file[f].apart /\ main.pc \notin {"done", "dead"}

\* The source changes: in place, with or without a new time stamp, or its name
\* is given to another file.
Write(f) ==
    /\ Changes(f)
    /\ \E tick \in {0, 1} :
        file' = [file EXCEPT ![f].content = @ + 1, ![f].stamp = @ + tick]
    /\ UNCHANGED <<job, main, feed, own, got, disk>>

Replace(f) ==
    /\ Changes(f)
    /\ file' = [file EXCEPT ![f].stamp = @ + 1, ![f].apart = Opened(f),
                            ![f].content = IF Opened(f) THEN @ ELSE @ + 1]
    /\ UNCHANGED <<job, main, feed, own, got, disk>>

-----------------------------------------------------------------------------

\* PreparationDirectory.__enter__; an artifact is copied without one.
Enter ==
    /\ At("enter") /\ Goto(IF job.kind = "set" THEN "stat" ELSE "open")
    /\ disk' = [disk EXCEPT !.owners = IF job.kind = "artifact" THEN @ ELSE "pending"]
    /\ UNCHANGED <<job, file, feed, own, got>>

\* The handle is opened and its identity noted; an expected hash is taken for
\* the digest of the container.
Open ==
    /\ At("open")
    /\ main' = [main EXCEPT
            !.pc = IF job.kind = "artifact" THEN "read" ELSE IF job.bound THEN "advance" ELSE "hash",
            !.before = Mine.stamp, !.digest = IF job.bound THEN 0 ELSE None]
    /\ UNCHANGED <<job, file, feed, own, got, disk>>

Hash ==
    /\ At("hash")
    /\ main' = [main EXCEPT !.pc = "advance", !.digest = Mine.content]
    /\ UNCHANGED <<job, file, feed, own, got, disk>>

\* Mutant: the end of the selected members is not noticed.
AdvanceOn ==
    /\ At("advance")
    /\ IF main.next <= main.m + 1
       THEN /\ feed' = [feed EXCEPT ![main.next].pc = "read"]
            /\ main' = [main EXCEPT !.next = @ + 1]
       ELSE UNCHANGED feed /\ Goto(IF main.m > Last THEN "verify" ELSE "copy")
    /\ UNCHANGED <<job, file, own, got, disk>>

\* advance: two members are open at a time, each with its producer.
Advance ==
    /\ At("advance")
    /\ IF main.next <= Last /\ main.next <= main.m + 1
       THEN /\ feed' = [feed EXCEPT ![main.next].pc = "read"]
            /\ main' = [main EXCEPT !.next = @ + 1]
       ELSE UNCHANGED feed /\ Goto(IF main.m > Last THEN "verify" ELSE "copy")
    /\ UNCHANGED <<job, file, own, got, disk>>

\* copy_dex: the path's identity, before the file is opened.
Stat ==
    /\ At("stat")
    /\ main' = [main EXCEPT !.pc = "read", !.before = Mine.stamp, !.left = Blocks]
    /\ UNCHANGED <<job, file, feed, own, got, disk>>

Read ==
    /\ At("read") /\ main.left > 0
    /\ got' = [got EXCEPT ![main.m] = @ \cup {Mine.content}]
    /\ main' = [main EXCEPT !.left = @ - 1]
    /\ UNCHANGED <<job, file, feed, own, disk>>

\* The checksum and signature of a DEX; the second stat of its path.
ReadEnds ==
    /\ At("read") /\ main.left = 0
    /\ LET intact == \/ job.kind = "artifact"
                     \/ Cardinality(got[main.m]) = 1 /\ Mine.stamp = main.before
       IN  Goto(IF ~intact THEN "unwind" ELSE IF job.kind = "artifact" THEN "rehash" ELSE "accept")
    /\ UNCHANGED <<job, file, feed, own, got, disk>>

-----------------------------------------------------------------------------

\* prefetched.produce: a read, then a put that gives up once it is stopped.
Produce(m) ==
    /\ feed[m].pc = "read"
    /\ \E what \in IF feed[m].left = 0 THEN {Over} ELSE {file[1].content, Broken} :
        feed' = [feed EXCEPT ![m].pc = "put", ![m].hold = what,
                             ![m].left = IF what >= 0 THEN @ - 1 ELSE @]
    /\ UNCHANGED <<job, file, main, own, got, disk>>

Put(m) ==
    /\ feed[m].pc = "put" /\ ~feed[m].stop /\ feed[m].queue = <<>>
    /\ feed' = [feed EXCEPT ![m].queue = <<feed[m].hold>>, ![m].hold = None,
                            ![m].pc = IF feed[m].hold >= 0 THEN "read" ELSE "ended"]
    /\ UNCHANGED <<job, file, main, own, got, disk>>

\* Mutant: a producer waits for room in the queue, and for nothing else.
NeverStops(m) ==
    /\ feed[m].pc = "put" /\ feed[m].stop /\ feed[m].queue = <<>>
    /\ feed' = [feed EXCEPT ![m].pc = "ended"]
    /\ UNCHANGED <<job, file, main, own, got, disk>>

Stops(m) ==
    /\ feed[m].pc = "put" /\ feed[m].stop
    /\ feed' = [feed EXCEPT ![m].pc = "ended", ![m].hold = None]
    /\ UNCHANGED <<job, file, main, own, got, disk>>

\* Reader.read in copy_dex_stream, which ends with the signature.
Copy ==
    /\ At("copy") /\ feed[main.m].queue # <<>>
    /\ LET what == Head(feed[main.m].queue)
       IN  /\ feed' = [feed EXCEPT ![main.m].queue = <<>>]
           /\ got' = [got EXCEPT ![main.m] = IF what >= 0 THEN @ \cup {what} ELSE @]
           /\ Goto(IF what >= 0 THEN "copy"
                   ELSE IF what = Over /\ Cardinality(got[main.m]) = 1 THEN "accept" ELSE "unwind")
    /\ UNCHANGED <<job, file, own, disk>>

\* Any other thing that raises: an invalid member, a limit, a full disk.
Fail ==
    /\ main.pc \in {"open", "advance", "copy", "read", "accept", "json"}
    /\ Goto(IF At("json") THEN "error" ELSE "unwind")
    /\ UNCHANGED <<job, file, feed, own, got, disk>>

\* Mutant: the next member's names are handed over without the join.
AcceptUnjoined ==
    /\ At("accept")
    /\ own' = [own EXCEPT !.job = main.m]
    /\ Goto("close")
    /\ UNCHANGED <<job, file, feed, got, disk>>

\* accept: the insertion of the member before is joined, then this one's
\* names are handed to the directory's thread.
Accept ==
    /\ At("accept") /\ own.job = None
    /\ IF own.failed THEN Goto("unwind") /\ UNCHANGED own
                     ELSE Goto("close") /\ own' = [own EXCEPT !.job = main.m]
    /\ UNCHANGED <<job, file, feed, got, disk>>

Owned(rows) == {n \in Names : rows[n] # None}

\* ClassDirectory.add: the first owner of a name keeps it.
Insert ==
    /\ own.job # None
    /\ LET new == job.classes[own.job]
           rows == [n \in Names |-> IF n \in new /\ own.rows[n] = None THEN own.job ELSE own.rows[n]]
           fits == Cardinality(Owned(rows)) <= Budget
       IN  own' = [job |-> None, rows |-> rows, failed |-> own.failed \/ ~fits,
                   dups |-> own.dups \cup IF fits THEN {n \in new : own.rows[n] # None} ELSE {}]
    /\ UNCHANGED <<job, file, main, feed, got, disk>>

\* lifetime.close: the member's producer is stopped, then joined.
Close ==
    /\ At("close")
    /\ IF job.kind = "container"
       THEN feed' = [feed EXCEPT ![main.m].stop = TRUE] /\ Goto("join")
       ELSE /\ UNCHANGED feed
            /\ main' = [main EXCEPT !.m = @ + 1, !.pc = IF main.m = Last THEN "exit" ELSE "stat"]
    /\ UNCHANGED <<job, file, own, got, disk>>

Join ==
    /\ At("join") /\ ~Live(main.m)
    /\ main' = [main EXCEPT !.pc = "advance", !.m = @ + 1]
    /\ UNCHANGED <<job, file, feed, own, got, disk>>

-----------------------------------------------------------------------------

\* stable_archive's end: identities, the digest of every byte, and identities
\* again.  The copy of an artifact is compared with its source in that way.
Verify ==
    /\ At("verify")
    /\ Goto(IF file[1].stamp = main.before THEN "rehash" ELSE "unwind")
    /\ UNCHANGED <<job, file, feed, own, got, disk>>

\* Mutant: the time stamps are thought to tell.
RehashSkipped ==
    /\ At("rehash") /\ Goto("reverify")
    /\ UNCHANGED <<job, file, feed, own, got, disk>>

Rehash ==
    /\ At("rehash")
    /\ LET same == IF job.kind = "artifact" THEN got[1] = {file[1].content}
                                            ELSE main.digest = file[1].content
       IN  Goto(IF same THEN "reverify" ELSE "unwind")
    /\ UNCHANGED <<job, file, feed, own, got, disk>>

Reverify ==
    /\ At("reverify")
    /\ main' = [main EXCEPT
            !.pc = IF file[1].stamp # main.before THEN "unwind"
                   ELSE IF job.kind = "artifact" THEN "done" ELSE "exit",
            !.out = IF file[1].stamp = main.before /\ job.kind = "artifact" THEN "ok" ELSE @]
    /\ UNCHANGED <<job, file, feed, own, got, disk>>

\* PreparationDirectory.__exit__: the last insertion is joined, the rows are
\* committed, and only then does the directory get its name.
Exit ==
    /\ At("exit") /\ own.job = None
    /\ Goto(IF own.failed THEN "unwind" ELSE "publish")
    /\ UNCHANGED <<job, file, feed, own, got, disk>>

Publish ==
    /\ At("publish")
    /\ disk' = [disk EXCEPT !.owners = "published"]
    /\ Goto("answer")
    /\ UNCHANGED <<job, file, feed, own, got>>

\* Mutant: only a container is compared with its artifact's hash.
AnswerUnbound ==
    /\ At("answer")
    /\ Goto(IF own.dups # {} THEN "error" ELSE "json")
    /\ UNCHANGED <<job, file, feed, own, got, disk>>

\* analyze: a set's own hashes are compared with an expected one; a class that
\* two members define is an error.
Answer ==
    /\ At("answer")
    /\ LET wrong == job.bound /\ job.kind = "set" /\ \E m \in Members : got[m] # {0}
       IN  Goto(IF wrong \/ own.dups # {} THEN "error" ELSE "json")
    /\ UNCHANGED <<job, file, feed, own, got, disk>>

Json ==
    /\ At("json")
    /\ disk' = [disk EXCEPT !.json = IF @ = "none" THEN "part" ELSE "whole"]
    /\ main' = [main EXCEPT !.pc = IF disk.json = "none" THEN "json" ELSE "done",
                            !.out = IF disk.json = "none" THEN @ ELSE "ok"]
    /\ UNCHANGED <<job, file, feed, own, got>>

\* Every path out: the producers are stopped and joined, the insertion is
\* joined, and the directory closed by its own thread without a commit.
Unwind ==
    /\ At("unwind")
    /\ feed' = [m \in Members |-> [feed[m] EXCEPT !.stop = TRUE]]
    /\ Goto("error")
    /\ UNCHANGED <<job, file, own, got, disk>>

End ==
    /\ At("error") /\ own.job = None /\ \A m \in Members : ~Live(m)
    /\ main' = [main EXCEPT !.pc = "done", !.out = "error"]
    /\ UNCHANGED <<job, file, feed, own, got, disk>>

\* The supervisor kills the worker.
Die ==
    /\ main.pc \notin {"done", "dead"} /\ Goto("dead")
    /\ own' = [own EXCEPT !.job = None]
    /\ feed' = [m \in Members |-> Quiet]
    /\ UNCHANGED <<job, file, got, disk>>

Main ==
    \/ Enter \/ Open \/ Hash \/ Advance \/ Stat \/ Read \/ ReadEnds \/ Copy \/ Accept
    \/ Close \/ Join \/ Verify \/ Rehash \/ Reverify \/ Exit \/ Publish \/ Answer \/ Json
    \/ Unwind \/ End

Producer(m) == Produce(m) \/ Put(m) \/ Stops(m)

Next ==
    \/ Main \/ Insert \/ Fail \/ Die
    \/ \E m \in Members : Producer(m) \/ Write(m) \/ Replace(m)

\* The threads of the worker run.
Spec ==
    /\ Init /\ [][Next]_vars
    /\ WF_vars(Main) /\ WF_vars(Insert) /\ \A m \in Members : WF_vars(Producer(m))

-----------------------------------------------------------------------------

Places == {"enter", "open", "hash", "advance", "stat", "read", "copy", "accept", "close", "join",
           "verify", "rehash", "reverify", "exit", "publish", "answer", "json", "unwind", "error",
           "done", "dead"}
Versions == 0..MaxVersion

\* Every variable has its type.
TypeOK ==
    /\ job \in [kind : Kinds, bound : BOOLEAN, classes : Layouts]
    /\ file \in [Members -> [content : Versions, stamp : 0..(MaxVersion + 1), apart : BOOLEAN]]
    /\ main \in [pc : Places, m : 1..(Last + 1), next : 1..(Last + 1), left : 0..Blocks,
                 before : {None} \cup 0..(MaxVersion + 1), digest : {None} \cup Versions,
                 out : {None, "ok", "error"}]
    /\ feed \in [Members -> [pc : {"none", "read", "put", "ended"}, left : 0..Blocks,
                             hold : {None, Over, Broken} \cup Versions,
                             queue : {<<>>} \cup {<<v>> : v \in {Over, Broken} \cup Versions},
                             stop : BOOLEAN]]
    /\ own \in [job : {None} \cup Members, rows : [Names -> {None} \cup Members],
                dups : SUBSET Names, failed : BOOLEAN]
    /\ got \in [Members -> SUBSET Versions]
    /\ disk \in [owners : {"none", "pending", "published"}, json : {"none", "part", "whole"}]

First(n) ==
    CHOOSE m \in Members : n \in job.classes[m] /\ \A k \in 1..(m - 1) : n \notin job.classes[k]

\* owners.sqlite gets its name only when it holds the first owner of every
\* class of every member, and every member's bytes are of one version of its
\* file; those of a container are of the version whose digest was verified.
PublishedWhole ==
    disk.owners = "published" =>
        /\ \A m \in Members : \A n \in job.classes[m] : own.rows[n] = First(n)
        /\ \A m \in Members : \E v \in Versions :
              got[m] = {v} /\ (job.kind = "container" => v = main.digest)

\* An answer "ok" of prepare means that both files are whole, that no class has
\* two owners, and that the bytes are those the artifact's handle promised; of
\* an artifact, that its copy is of one version.
ReadySound ==
    main.out = "ok" =>
        /\ job.kind # "artifact" => disk.owners = "published" /\ disk.json = "whole"
        /\ job.kind = "artifact" => Cardinality(got[1]) = 1
        /\ job.kind # "artifact" => \A m, k \in Members : m # k => job.classes[m] \cap job.classes[k] = {}
        /\ job.bound => \A m \in Members : got[m] = {0}

\* The worker ends with all its threads joined: no producer waits for ever for
\* room in its queue, nor main for a block.
PreparationEnds ==
    <>(main.pc = "dead" \/ (main.pc = "done" /\ own.job = None /\ \A m \in Members : ~Live(m)))
=============================================================================
