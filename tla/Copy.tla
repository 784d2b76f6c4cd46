-------------------------------- MODULE Copy --------------------------------
(***************************************************************************)
(* Copying files: xrootd/xrdcopy (download, upload, local copy and the     *)
(* third-party copy of tpc.go), and xrd.DownloadAll, which runs several    *)
(* Copy calls, a few at a time.                                            *)
(*                                                                         *)
(* A group is the calls of one DownloadAll.  The user repeats a group that *)
(* failed, or whose process died, as the documentation of Download invites *)
(* to.  A file is a sequence of chunks; a chunk is known by the version    *)
(* and the place of the source it was read from.  A call copies the files  *)
(* of a directory walk in turn; one that is not recursive has a walk of    *)
(* one file.                                                               *)
(***************************************************************************)
EXTENDS Integers, Sequences, FiniteSets, Functions

CONSTANTS
  Files,        \* the files
  Groups,       \* the groups to choose from: sequences of calls
  ResumeModes,  \* the values of Options.Resume
  Verify,       \* Options.Verify, which only a download looks at
  Parallel,     \* DefaultParallel
  Sizes,        \* sizes a source may have
  MayReplace,   \* <<resume, while a group runs>>: when a source may be replaced
  MaxReplaced,  \* bound: how often
  MaxFails      \* bound: failures and deaths of the process

\* A call: what it does, and the files it copies, in order.  A walk meets a file
\* once, and a third-party copy is of one file.
Call == [kind : {"down", "up", "local", "tpc"}, walk : Seq(Files)]

ASSUME CopyAssumption ==
  /\ Groups \subseteq Seq(Call)
  /\ \A g \in Groups : \A c \in DOMAIN g :
       /\ g[c].walk # <<>> /\ IsInjective(g[c].walk)
       /\ g[c].kind = "tpc" => Len(g[c].walk) = 1
       /\ \A d \in DOMAIN g : c # d => Range(g[c].walk) \cap Range(g[d].walk) = {}
  /\ ResumeModes \subseteq BOOLEAN /\ Verify \in BOOLEAN
  /\ Parallel \in Nat \ {0}
  /\ Sizes \subseteq Nat /\ \E n \in Sizes : \A m \in Sizes : m <= n
  /\ MayReplace \subseteq BOOLEAN \X BOOLEAN
  /\ MaxReplaced \in Nat /\ MaxFails \in Nat

VARIABLES
  calls,     \* the group
  resume,    \* Options.Resume
  src,       \* the source of each file: its version and its size
  dst,       \* what the destination of each file holds
  group,     \* "idle", "run", "ok" or "err": the group, or how it returned
  job,       \* where each call is
  pull,      \* third-party copies: the job on the destination server
  key,       \* the calls whose key is registered at the source server
  settled,   \* the group's files whose source was not replaced since it began
  fails      \* failures so far

opts == <<calls, resume>>
vars == <<opts, src, dst, group, job, pull, key, settled, fails>>

Calls == DOMAIN calls
Kind(c) == calls[c].kind
Walk(c) == calls[c].walk
Copied == UNION {Range(Walk(c)) : c \in Calls}
Versions == 0 .. MaxReplaced
MaxSize == CHOOSE n \in Sizes : \A m \in Sizes : m <= n
Chunks == Versions \X (1 .. MaxSize)
Chunk(f, i) == <<src[f].ver, i>>
Content(f) == [i \in 1 .. src[f].size |-> Chunk(f, i)]

\* at: "queued", "start", "open", "copy", "sync", "verify" and, for a third-party
\* copy, "source", "dest", "sync", "wait"; then "ok" or "err".
Job == [at : {"queued", "start", "open", "copy", "sync", "verify", "source", "dest",
              "wait", "ok", "err"},
        i : Nat, off : 0 .. MaxSize, size : 0 .. MaxSize]
JobAt(l, i, off, size) == [at |-> l, i |-> i, off |-> off, size |-> size]
Queued == JobAt("queued", 1, 0, 0)

TypeOK ==
  /\ calls \in Groups /\ resume \in ResumeModes
  /\ src \in [Files -> [ver : Versions, size : Sizes]]
  /\ dst \in [Files -> Seq(Chunks)]
  /\ \A f \in Files : Len(dst[f]) <= MaxSize
  /\ group \in {"idle", "run", "ok", "err"}
  /\ job \in [Calls -> Job]
  /\ \A c \in Calls : job[c].i \in DOMAIN Walk(c)
  /\ pull \in [Calls -> {"none", "run", "ok", "err"}]
  /\ key \subseteq Calls
  /\ settled \subseteq Copied
  /\ fails \in 0 .. MaxFails

\* The destination is absent, or what an earlier copy left: a part of the source.
Init ==
  /\ calls \in Groups /\ resume \in ResumeModes
  /\ src \in [Files -> [ver : {0}, size : Sizes]]
  /\ \E n \in [Files -> 0 .. MaxSize] :
       /\ \A f \in Files : n[f] <= src[f].size
       /\ dst = [f \in Files |-> SubSeq(Content(f), 1, n[f])]
  /\ group = "idle"
  /\ job = [c \in Calls |-> Queued]
  /\ pull = [c \in Calls |-> "none"]
  /\ key = {} /\ settled = {} /\ fails = 0

Active(c) == job[c].at \notin {"queued", "ok", "err"}
Running == Cardinality({c \in Calls : Active(c)})
MayFail == fails < MaxFails /\ fails' = fails + 1
File(c) == Walk(c)[job[c].i]
Goto(c, l) == job' = [job EXCEPT ![c].at = l]

-----------------------------------------------------------------------------
(* resumeOffsetSize: where to continue, and whether there is nothing to do. *)

resumeOffsetSize(dstSize, srcSize) ==
  IF dstSize = srcSize /\ srcSize > 0 THEN [offset |-> 0, complete |-> TRUE]
  ELSE IF dstSize > 0 /\ dstSize < srcSize THEN [offset |-> dstSize, complete |-> FALSE]
  ELSE [offset |-> 0, complete |-> FALSE]

-----------------------------------------------------------------------------
(* The group. *)

\* DownloadAll, called for the first time or again.
Begin ==
  /\ group \in {"idle", "err"}
  /\ group' = "run"
  /\ job' = [c \in Calls |-> Queued]
  /\ settled' = Copied
  /\ UNCHANGED <<opts, src, dst, pull, key, fails>>

\* grp.Go in the order of the names, which waits while the limit is reached.
Go(c) ==
  /\ group = "run" /\ job[c].at = "queued"
  /\ \A d \in 1 .. c - 1 : job[d].at # "queued"
  /\ Running < Parallel
  /\ Goto(c, "start")
  /\ UNCHANGED <<opts, src, dst, group, pull, key, settled, fails>>

\* grp.Wait
Wait ==
  /\ group = "run"
  /\ \A c \in Calls : job[c].at \in {"ok", "err"}
  /\ group' = IF \E c \in Calls : job[c].at = "err" THEN "err" ELSE "ok"
  /\ UNCHANGED <<opts, src, dst, job, pull, key, settled, fails>>

\* The process dies.  Its connections go, and with them the handles on the servers.
Die ==
  /\ group = "run" /\ MayFail
  /\ group' = "err"
  /\ job' = [c \in Calls |-> [job[c] EXCEPT !.at = "err"]]
  /\ key' = {} /\ pull' = [c \in Calls |-> "none"]
  /\ UNCHANGED <<opts, src, dst, settled>>

\* Somebody replaces a source.
Replace(f) ==
  /\ <<resume, group = "run">> \in MayReplace
  /\ src[f].ver < MaxReplaced
  /\ \E n \in Sizes : src' = [src EXCEPT ![f] = [ver |-> @.ver + 1, size |-> n]]
  /\ settled' = settled \ {f}
  /\ UNCHANGED <<opts, dst, group, job, pull, key, fails>>

-----------------------------------------------------------------------------
(* A Copy call.  The deferred calls of every return close what it opened. *)

Frame == UNCHANGED <<opts, src, group, settled>>

\* Any operation may fail, and ends the call.  A write that fails may or may not
\* have been done: see CopyChunk.
Fail(c) ==
  /\ Active(c) /\ MayFail
  /\ Goto(c, "err")
  /\ key' = key \ {c} /\ pull' = [pull EXCEPT ![c] = "none"]
  /\ Frame /\ UNCHANGED dst

\* The next file of the walk, or the end of the call.
NextFile(c) ==
  job' = [job EXCEPT ![c] = IF @.i = Len(Walk(c)) THEN [@ EXCEPT !.at = "ok"]
                            ELSE JobAt("open", @.i + 1, 0, 0)]

\* Connect, and tell a file from a directory.
Start(c) ==
  /\ job[c].at = "start"
  /\ Goto(c, IF Kind(c) = "tpc" THEN "source" ELSE "open")
  /\ Frame /\ UNCHANGED <<dst, pull, key, fails>>

\* Defect: the destination is truncated whatever the offset.
OpenAtAfresh(c, off) ==
  /\ job' = [job EXCEPT ![c] = JobAt("copy", @.i, off, src[File(c)].size)]
  /\ dst' = [dst EXCEPT ![File(c)] = <<>>]

\* Defect: the destination is never truncated.
OpenAtKeep(c, off) ==
  /\ job' = [job EXCEPT ![c] = JobAt("copy", @.i, off, src[File(c)].size)]
  /\ UNCHANGED dst

\* Open the destination at the given offset, from nothing if that is 0.
OpenAt(c, off) ==
  /\ job' = [job EXCEPT ![c] = JobAt("copy", @.i, off, src[File(c)].size)]
  /\ dst' = [dst EXCEPT ![File(c)] = IF off = 0 THEN <<>> ELSE @]

\* downloadFile and uploadFile up to the loop, when they resume.
OpenResumed(c) ==
  LET r == resumeOffsetSize(Len(dst[File(c)]), src[File(c)].size) IN
  /\ resume /\ Kind(c) # "local"
  /\ IF r.complete THEN NextFile(c) /\ UNCHANGED dst ELSE OpenAt(c, r.offset)
  /\ UNCHANGED fails

\* The same when they do not; localCopy never does.
OpenAfresh(c) ==
  /\ ~resume \/ Kind(c) = "local"
  /\ OpenAt(c, 0)
  /\ UNCHANGED fails

\* An upload whose Stat fails takes the destination for absent.
OpenUnknown(c) ==
  /\ resume /\ Kind(c) = "up" /\ MayFail
  /\ OpenAt(c, 0)

Open(c) ==
  /\ job[c].at = "open"
  /\ OpenResumed(c) \/ OpenAfresh(c) \/ OpenUnknown(c)
  /\ Frame /\ UNCHANGED <<pull, key>>

\* Write the chunk read at off: at off of a remote file, at the end of a local one.
Put(c, off) ==
  LET f == File(c) IN
  dst' = [dst EXCEPT ![f] =
    IF Kind(c) = "up" /\ off < Len(@) THEN [@ EXCEPT ![off + 1] = Chunk(f, off + 1)]
                                      ELSE Append(@, Chunk(f, off + 1))]

\* One turn of the copy loop; a write of an upload may fail after it was done.
CopyChunk(c) ==
  LET f == File(c) IN
  /\ job[c].at = "copy" /\ job[c].off < src[f].size
  /\ Kind(c) = "down" => job[c].off < job[c].size
  /\ Put(c, job[c].off)
  /\ \/ job' = [job EXCEPT ![c].off = @ + 1] /\ UNCHANGED fails
     \/ Kind(c) = "up" /\ MayFail /\ Goto(c, "err")
  /\ Frame /\ UNCHANGED <<pull, key>>

\* The end of the source: for a download the size it had when it was opened, for
\* the others the end of the local file.  A download that meets the end of the
\* remote file earlier reads 0 bytes without an error, and tries again for ever.
CopyEnd(c) ==
  /\ job[c].at = "copy"
  /\ job[c].off >= (IF Kind(c) = "down" THEN job[c].size ELSE src[File(c)].size)
  /\ Goto(c, "sync")
  /\ Frame /\ UNCHANGED <<dst, pull, key, fails>>

\* Close or sync the destination; a download is then verified.
Sync(c) ==
  /\ job[c].at = "sync" /\ Kind(c) # "tpc"
  /\ IF Kind(c) = "down" /\ Verify THEN Goto(c, "verify") ELSE NextFile(c)
  /\ Frame /\ UNCHANGED <<dst, pull, key, fails>>

\* verifyChecksum: a server that gives no checksum verifies nothing.
verifyChecksum(c) ==
  /\ job[c].at = "verify"
  /\ \/ dst[File(c)] = Content(File(c)) /\ NextFile(c) /\ UNCHANGED fails
     \/ dst[File(c)] # Content(File(c)) /\ Goto(c, "err") /\ UNCHANGED fails
     \/ NextFile(c) /\ MayFail
  /\ Frame /\ UNCHANGED <<dst, pull, key>>

-----------------------------------------------------------------------------
(* TPC.  The destination server pulls the file; the key at the source server *)
(* lives as long as the handle that registered it.                           *)

\* The size, the placement probe, and the open that registers the key.
TpcSource(c) ==
  /\ job[c].at = "source"
  /\ key' = key \cup {c}
  /\ Goto(c, "dest")
  /\ Frame /\ UNCHANGED <<dst, pull, fails>>

\* Defect: the handle at the source is closed once the destination is open.
TpcDestReleases(c) ==
  /\ job[c].at = "dest"
  /\ dst' = [dst EXCEPT ![File(c)] = <<>>]
  /\ key' = key \ {c}
  /\ Goto(c, "sync")
  /\ Frame /\ UNCHANGED <<pull, fails>>

\* The open that truncates the destination.
TpcDest(c) ==
  /\ job[c].at = "dest"
  /\ dst' = [dst EXCEPT ![File(c)] = <<>>]
  /\ Goto(c, "sync")
  /\ Frame /\ UNCHANGED <<pull, key, fails>>

\* The first sync starts the pull ...
TpcStart(c) ==
  /\ job[c].at = "sync" /\ Kind(c) = "tpc"
  /\ pull' = [pull EXCEPT ![c] = "run"]
  /\ Goto(c, "wait")
  /\ Frame /\ UNCHANGED <<dst, key, fails>>

\* Defect: a pull that failed is waited for.
TpcWaitOk(c) ==
  /\ job[c].at = "wait" /\ pull[c] = "ok"
  /\ Goto(c, pull[c])
  /\ pull' = [pull EXCEPT ![c] = "none"]
  /\ key' = key \ {c}
  /\ Frame /\ UNCHANGED <<dst, fails>>

\* ... and the second waits for it.
TpcWait(c) ==
  /\ job[c].at = "wait" /\ pull[c] \in {"ok", "err"}
  /\ Goto(c, pull[c])
  /\ pull' = [pull EXCEPT ![c] = "none"]
  /\ key' = key \ {c}
  /\ Frame /\ UNCHANGED <<dst, fails>>

\* The destination server: the source serves it while the key is registered.
Pull(c) ==
  LET f == File(c) IN
  /\ pull[c] = "run"
  /\ \/ /\ c \in key /\ Len(dst[f]) < src[f].size
        /\ dst' = [dst EXCEPT ![f] = Append(@, Chunk(f, Len(@) + 1))]
        /\ UNCHANGED <<pull, fails>>
     \/ /\ Len(dst[f]) >= src[f].size
        /\ pull' = [pull EXCEPT ![c] = "ok"]
        /\ UNCHANGED <<dst, fails>>
     \/ /\ MayFail
        /\ pull' = [pull EXCEPT ![c] = "err"]
        /\ UNCHANGED dst
  /\ Frame /\ UNCHANGED <<job, key>>

-----------------------------------------------------------------------------
CallStep(c) ==
  \/ Go(c) \/ Start(c) \/ Open(c) \/ CopyChunk(c) \/ CopyEnd(c) \/ Sync(c)
  \/ verifyChecksum(c)
  \/ TpcSource(c) \/ TpcDest(c) \/ TpcStart(c) \/ TpcWait(c) \/ Pull(c)

Progress == Begin \/ Wait \/ \E c \in Calls : CallStep(c)

Next ==
  \/ Progress \/ Die
  \/ \E c \in Calls : Fail(c)
  \/ \E f \in Files : Replace(f)

Spec == Init /\ [][Next]_vars

\* Something goes on while anything can, and the user repeats what failed.
FairSpec == Spec /\ WF_vars(Progress)

-----------------------------------------------------------------------------
(***************************************************************************)
(* A group that returns without an error has copied every file: after any  *)
(* failures, deaths, half-done and repeated attempts, the destination      *)
(* holds what the source holds, unless that was replaced while the group   *)
(* ran.  Verification and resuming "have to compose rather than one of     *)
(* them short-circuiting the other".                                       *)
(***************************************************************************)
RightCopy ==
  group = "ok" => \A f \in settled : dst[f] = Content(f)

\* The chunks of s are the first ones of t.
Begins(s, t) == \E n \in 0 .. Len(t) : s = SubSeq(t, 1, n)

(***************************************************************************)
(* A resumed download continues "rather than start again": no step of any  *)
(* attempt makes the destination shorter, nor writes a chunk again.        *)
(***************************************************************************)
Continues ==
  [][resume => \A c \in Calls : Kind(c) = "down" =>
       \A f \in Range(Walk(c)) : Begins(dst[f], dst'[f])]_vars

(***************************************************************************)
(* The key of a third-party copy is registered for as long as the          *)
(* destination pulls: "closing it early would unregister the key before    *)
(* the destination pulls".                                                 *)
(***************************************************************************)
KeyWhilePulling == \A c \in Calls : pull[c] = "run" => c \in key

(***************************************************************************)
(* Repeating a group until it returns without an error comes to an end.    *)
(***************************************************************************)
CopiedAtLast == <>(group = "ok")

=============================================================================
