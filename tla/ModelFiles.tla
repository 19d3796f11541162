----------------------------- MODULE ModelFiles -----------------------------
(***************************************************************************)
(* Files that come from the network: ResourceManager.get() of              *)
(* lingualdub.utils.resource_manager, which knows the checksum of a file,  *)
(* and download() and delete() of lingualdub.models, which do not.         *)
(*                                                                         *)
(* Clients are threads of processes that share the cache directory; a      *)
(* process has one ResourceManager.  A step is one look at the directory,  *)
(* the transfer of one file, or one change of the directory.  Of a file    *)
(* only its kind of content is kept: "whole" is the file that was asked    *)
(* for, "cut" a part of it, as HTTPResponse.read(n) delivers it without an *)
(* exception when the connection ends early, "foreign" another file.       *)
(* huggingface_hub is not installed.                                       *)
(***************************************************************************)
EXTENDS Naturals, Sequences, SequencesExt

CONSTANTS Clients, Processes,
          Process,         \* the process a client is a thread of
          Pinned,          \* files with a checksum, asked for by get()
          Model,           \* the files of the one model, in the order of its descriptor
          Required,        \* those without which it is not downloaded
          MaxCalls         \* bound: calls made

Parts == ToSet(Model)
Files == Pinned \cup Parts

Free == "free"

ASSUME ModelFilesConstants == /\ Process \in [Clients -> Processes]
                              /\ Pinned \cap Parts = {}
                              /\ Model \in Seq(Parts) \ {<<>>}
                              /\ Required \subseteq Parts
                              /\ MaxCalls \in Nat
                              /\ Free \notin Clients

VARIABLES files,           \* the cache directory
          temps,           \* per client: the temporary file of its download
          litter,          \* temporary files nobody will remove, and why
          lock,            \* per process: holder of ResourceManager._lock
          pc,              \* per client: where it is
          file,            \* per client: the file at hand
          todo,            \* per client: files of the model yet to come
          doomed,          \* per client: entries rmtree() has yet to remove
          outcome,         \* per client: how its last call ended
          disturbed,       \* history: a delete() since the client's call began
          fetched,         \* history: files a process has put into the cache
          calls

fileVars == <<files, temps, litter, lock, pc, file, todo, doomed, outcome,
              disturbed, fetched, calls>>

Contents == {"absent", "empty", "cut", "foreign", "whole"}
Places == {"idle", "look", "lock", "recheck", "temp", "stream", "verify", "move",
           "clean", "delete"}
Outcomes == {"none", "path", "model", "checksum", "failed", "deleted"}
NoFile == "none"

\* What an earlier version or another program may have left in the cache.
FilesInit == /\ files \in [Files -> {"absent", "empty", "foreign"}]
             /\ \A f \in Files : files[f] # IF f \in Pinned THEN "empty" ELSE "foreign"
             /\ temps = [c \in Clients |-> "absent"]
             /\ litter = {}
             /\ lock = [p \in Processes |-> Free]
             /\ pc = [c \in Clients |-> "idle"]
             /\ file = [c \in Clients |-> NoFile]
             /\ todo = [c \in Clients |-> <<>>]
             /\ doomed = [c \in Clients |-> {}]
             /\ outcome = [c \in Clients |-> "none"]
             /\ disturbed = [c \in Clients |-> FALSE]
             /\ fetched = [p \in Processes |-> {}]
             /\ calls = 0

-----------------------------------------------------------------------------
Goto(c, place) == pc' = [pc EXCEPT ![c] = place]
End(c, how) == Goto(c, "idle") /\ outcome' = [outcome EXCEPT ![c] = how]
Release(c) == lock' = [p \in Processes |-> IF lock[p] = c THEN Free ELSE lock[p]]
OfModel(c) == file[c] \in Parts
Present(f) == files[f] \notin {"absent", "empty"}

\* is_downloaded(): the required files are there, and not empty.
Downloaded == \A f \in Required : Present(f)

Call(c, place, f, rest) ==
    /\ pc[c] = "idle" /\ calls < MaxCalls
    /\ calls' = calls + 1
    /\ Goto(c, place)
    /\ file' = [file EXCEPT ![c] = f]
    /\ todo' = [todo EXCEPT ![c] = rest]
    /\ outcome' = [outcome EXCEPT ![c] = "none"]
    /\ UNCHANGED <<files, temps, litter, lock, fetched>>

\* ResourceManager.get(f), and ModelManager.download()
Get(c) == \E f \in Pinned : /\ Call(c, "look", f, <<>>)
                            /\ UNCHANGED <<doomed, disturbed>>

Download(c) ==
    /\ Call(c, "look", Head(Model), Tail(Model))
    /\ disturbed' = [disturbed EXCEPT ![c] = \E d \in Clients : pc[d] = "delete"]
    /\ UNCHANGED doomed

\* The loop of download_model() goes on to the next file, or returns.
NextFile(c) ==
    IF todo[c] = <<>>
    THEN End(c, "model") /\ UNCHANGED <<file, todo>>
    ELSE /\ file' = [file EXCEPT ![c] = Head(todo[c])]
         /\ todo' = [todo EXCEPT ![c] = Tail(todo[c])]
         /\ Goto(c, "look") /\ UNCHANGED outcome

\* Mutant: a cached file is taken as it is.
Trusting(f) == files[f] # "absent"

\* _verify(): the content has the expected checksum.
Verify(f) == files[f] = "whole"

\* exists() and _verify() of a file in the cache
FromCache(c) == IF Verify(file[c]) THEN End(c, "path") ELSE End(c, "checksum")

\* The fast path of get() without the lock, and the look of download_model_file()
\* at a file that may be there.
Look(c) ==
    /\ pc[c] = "look"
    /\ \/ /\ ~OfModel(c) /\ files[file[c]] # "absent"
          /\ FromCache(c) /\ UNCHANGED <<file, todo>>
       \/ /\ ~OfModel(c) /\ files[file[c]] = "absent"
          /\ Goto(c, "lock") /\ UNCHANGED <<outcome, file, todo>>
       \/ OfModel(c) /\ Present(file[c]) /\ NextFile(c)
       \/ /\ OfModel(c) /\ ~Present(file[c])
          /\ Goto(c, "temp") /\ UNCHANGED <<outcome, file, todo>>
    /\ UNCHANGED <<files, temps, litter, lock, doomed, disturbed, fetched, calls>>

Acquire(c) == /\ pc[c] = "lock" /\ lock[Process[c]] = Free
              /\ lock' = [lock EXCEPT ![Process[c]] = c]
              /\ Goto(c, "recheck")
              /\ UNCHANGED <<files, temps, litter, file, todo, doomed, outcome,
                             disturbed, fetched, calls>>

\* Mutant: who got the lock downloads at once.
LookedAlready(f) == FALSE

CachedMeanwhile(f) == files[f] # "absent"

\* "Double-check inside lock"
Recheck(c) == /\ pc[c] = "recheck"
              /\ IF CachedMeanwhile(file[c]) THEN FromCache(c) /\ Release(c)
                                       ELSE Goto(c, "temp") /\ UNCHANGED <<outcome, lock>>
              /\ UNCHANGED <<files, temps, litter, file, todo, doomed, disturbed,
                             fetched, calls>>

\* mkstemp(), which may fail, or the path with a uuid: nobody else has this file.
MakeTemp(c) == /\ pc[c] = "temp"
               /\ \/ temps' = [temps EXCEPT ![c] = "empty"] /\ Goto(c, "stream")
                  \/ OfModel(c) /\ Goto(c, "clean") /\ UNCHANGED temps
               /\ UNCHANGED <<files, litter, lock, file, todo, doomed, outcome,
                              disturbed, fetched, calls>>

\* The transfer: the response ends, wherever that is, or something raises.  A
\* file unlinked by delete() meanwhile is gone, unless it was opened after that.
Stream(c) ==
    /\ pc[c] = "stream"
    /\ \E got \in {"empty", "cut", "whole"} :
          /\ temps' \in {[temps EXCEPT ![c] = got]}
                          \cup IF temps[c] = "absent" THEN {temps} ELSE {}
          /\ \/ Goto(c, "clean")
             \/ ~OfModel(c) /\ Goto(c, "verify")
             \/ OfModel(c) /\ got # "empty" /\ Goto(c, "move")
    /\ UNCHANGED <<files, litter, lock, file, todo, doomed, outcome, disturbed,
                   fetched, calls>>

VerifyTemp(c) == /\ pc[c] = "verify"
                 /\ Goto(c, IF temps[c] = "whole" THEN "move" ELSE "clean")
                 /\ UNCHANGED <<files, temps, litter, lock, file, todo, doomed,
                                outcome, disturbed, fetched, calls>>

\* os.replace(), shutil.move(): it fails only when delete() took the file away.
Move(c) ==
    /\ pc[c] = "move"
    /\ IF temps[c] = "absent"
       THEN Goto(c, "clean") /\ UNCHANGED <<files, temps, lock, file, todo, outcome, fetched>>
       ELSE /\ files' = [files EXCEPT ![file[c]] = temps[c]]
            /\ temps' = [temps EXCEPT ![c] = "absent"]
            /\ fetched' = [fetched EXCEPT ![Process[c]] = @ \cup {file[c]}]
            /\ IF OfModel(c) THEN NextFile(c) ELSE End(c, "path") /\ UNCHANGED <<file, todo>>
            /\ Release(c)
    /\ UNCHANGED <<litter, doomed, disturbed, calls>>

Indispensable(f) == f \in Pinned \cup Required

\* What client c leaves of its temporary file when it ends.
Left(c, now, why) == IF now[c] = "absent" THEN {} ELSE {[file |-> file[c], why |-> why]}

Unlinked(c) == [temps EXCEPT ![c] = "absent"]

\* The except clauses: the temporary file goes, then the exception, unless the
\* file of the model is optional.
Clean(c) ==
    /\ pc[c] = "clean"
    /\ temps' = Unlinked(c)
    /\ litter' = litter \cup Left(c, temps', "failed")
    /\ IF Indispensable(file[c]) THEN End(c, "failed") /\ UNCHANGED <<file, todo>>
                                 ELSE NextFile(c)
    /\ Release(c)
    /\ UNCHANGED <<files, doomed, disturbed, fetched, calls>>

\* KeyboardInterrupt or SystemExit during the transfer: get() removes its
\* temporary file, _download_stream() does not.
Interrupt(c) ==
    /\ pc[c] = "stream"
    /\ temps' = Unlinked(c)
    /\ litter' = litter \cup IF OfModel(c) THEN Left(c, temps, "interrupt")
                                           ELSE Left(c, temps', "interrupt")
    /\ End(c, "failed")
    /\ Release(c)
    /\ UNCHANGED <<files, file, todo, doomed, disturbed, fetched, calls>>

\* The process dies; another one takes its place.
Crash(p) ==
    LET lost == {c \in Clients : Process[c] = p}
        For(v, x) == [c \in Clients |-> IF c \in lost THEN x ELSE v[c]]
    IN /\ \E c \in lost : pc[c] # "idle"
       /\ litter' = litter \cup UNION {Left(c, temps, "crash") : c \in lost}
       /\ temps' = For(temps, "absent")
       /\ pc' = For(pc, "idle")
       /\ outcome' = For(outcome, "none")
       /\ doomed' = For(doomed, {})
       /\ lock' = [lock EXCEPT ![p] = Free]
       /\ UNCHANGED <<files, file, todo, disturbed, fetched, calls>>

-----------------------------------------------------------------------------
\* The entries of the model's directory
Entry(kind, of) == [kind |-> kind, of |-> of]
Entries == {Entry("file", f) : f \in {g \in Parts : files[g] # "absent"}}
              \cup {Entry("temp", c) : c \in {d \in Clients : OfModel(d) /\ temps[d] # "absent"}}
              \cup {Entry("litter", l) : l \in {m \in litter : m.file \in Parts}}

\* delete(): rmtree() lists the directory
Delete(c) ==
    /\ Entries # {}
    /\ Call(c, "delete", NoFile, <<>>)
    /\ doomed' = [doomed EXCEPT ![c] = Entries]
    /\ disturbed' = [d \in Clients |-> TRUE]

\* and removes what it found; an entry that is gone already is an error to
\* rmtree(), or with newer versions of Python is none.
DeleteEntry(c) ==
    /\ pc[c] = "delete"
    /\ \E e \in doomed[c] :
          /\ doomed' = [doomed EXCEPT ![c] = @ \ {e}]
          /\ files' = [f \in Files |-> IF e = Entry("file", f) THEN "absent" ELSE files[f]]
          /\ temps' = [d \in Clients |->
                          IF e = Entry("temp", d) /\ OfModel(d) THEN "absent" ELSE temps[d]]
          /\ litter' = {l \in litter : e # Entry("litter", l)}
          /\ \/ UNCHANGED <<pc, outcome>>
             \/ e \notin Entries /\ End(c, "failed")
    /\ UNCHANGED <<lock, file, todo, disturbed, fetched, calls>>

\* rmdir(), which fails when there is something in the directory again
DeleteDirectory(c) ==
    /\ pc[c] = "delete" /\ doomed[c] = {}
    /\ End(c, IF Entries = {} THEN "deleted" ELSE "failed")
    /\ UNCHANGED <<files, temps, litter, lock, file, todo, doomed, disturbed, fetched, calls>>

Step(c) == \/ Look(c) \/ Acquire(c) \/ Recheck(c)
           \/ MakeTemp(c) \/ Stream(c) \/ VerifyTemp(c) \/ Move(c) \/ Clean(c)
           \/ DeleteEntry(c) \/ DeleteDirectory(c)

FilesNext == \/ \E c \in Clients : Get(c) \/ Download(c) \/ Delete(c) \/ Step(c) \/ Interrupt(c)
             \/ \E p \in Processes : Crash(p)

FilesSpec == FilesInit /\ [][FilesNext]_fileVars

-----------------------------------------------------------------------------
\* The variables hold values of their types.
FilesTypeOK == /\ files \in [Files -> Contents]
               /\ temps \in [Clients -> Contents]
               /\ lock \in [Processes -> Clients \cup {Free}]
               /\ pc \in [Clients -> Places]
               /\ file \in [Clients -> Files \cup {NoFile}]
               /\ outcome \in [Clients -> Outcomes]
               /\ disturbed \in [Clients -> BOOLEAN]
               /\ fetched \in [Processes -> SUBSET Files]
               /\ calls \in 0..MaxCalls

\* resource_manager.py, get(): a path that was returned leads to the file with
\* the expected checksum, and goes on doing so, whatever other threads and
\* processes download meanwhile, and wherever they crash.
ReturnedVerified ==
    \A c \in Clients : outcome[c] = "path" => files[file[c]] = "whole"

\* "prevent race conditions during concurrent downloads": no two threads of a
\* process download the same resource with success.
FetchedOnce ==
    [][\A c \in Clients : file[c] \in Pinned /\ pc[c] = "stream" /\ pc'[c] # "stream"
          => file[c] \notin fetched[Process[c]]]_fileVars

\* models/downloader.py: a download() that returned the directory has left every
\* required file in it, whoever downloaded the same model meanwhile, until the
\* next delete().
ReturnedDownloaded ==
    \A c \in Clients : outcome[c] = "model" /\ ~disturbed[c] => Downloaded

\* A temporary file is left behind by a crash, or by an interrupted download of
\* a model, and by nothing else.
NoLitter == \A l \in litter : \/ l.why = "crash"
                              \/ l.why = "interrupt" /\ l.file \in Parts

=============================================================================
