------------------------------ MODULE RootFile ------------------------------
(***************************************************************************)
(* Writing a ROOT file, groot/riofs: Create, Put, Mkdir and Close, down to *)
(* the order of their WriteAt calls.  Records are laid out one after the   *)
(* other; the top directory and a subdirectory list their keys in records  *)
(* of their own, which are written when the file is closed.                *)
(*                                                                         *)
(* A write may fail: the call then returns an error, and Close may be      *)
(* called again.  A crash may come between any two writes, so the          *)
(* invariants speak of the disk in every state.                            *)
(***************************************************************************)
EXTENDS Integers, Sequences, SequencesExt, FiniteSets

CONSTANTS
  Names,      \* names given to Put
  Lens,       \* sizes of the objects
  Begin,      \* kBEGIN
  Big,        \* kStartBigFile
  MaxPuts,    \* bound: calls of Put
  MaxFails,   \* bound: writes that fail
  MaxCloses   \* bound: calls of Close

ASSUME RootFileAssumption ==
  /\ Lens \subseteq Nat \ {0} /\ Begin \in Nat \ {0} /\ Big \in Nat
  /\ MaxPuts \in Nat /\ MaxFails \in Nat /\ MaxCloses \in Nat

VARIABLES
  disk,     \* the records on disk, by position
  header,   \* the file header on disk
  end,      \* File.end
  spans,    \* File.spans
  seek,     \* of each record the file refers to by itself, its position and length
  keys,     \* tdirectoryFile.keys of the top directory and of the subdirectory
  made,     \* the directories there are
  pc,       \* the call in progress: what it still has to write
  acked,    \* the objects whose Put returned nil
  count     \* calls of Put and Close, writes that failed and calls of Sync that did

vars == <<disk, header, end, spans, seek, keys, made, pc, acked, count>>

Dirs == {"top", "sub"}
Kinds == {"obj", "dir", "keys", "info", "free"}

\* A key, as it is listed and as it stands at the head of its record.
Key == [kind : Kinds, name : Names \cup Dirs \cup {""}, cycle : Nat, val : Nat,
        pos : Nat, len : Nat]
KeyOf(kind, name, cycle, val, pos, len) ==
  [kind |-> kind, name |-> name, cycle |-> cycle, val |-> val, pos |-> pos, len |-> len]

\* A record: its key, whether its payload is there too, and what the payload lists:
\* keys; for a directory the record of its keys; free segments as <<first, last>>.
NoRecord == [state |-> "none", key |-> KeyOf("obj", "", 0, 0, 0, 0), list |-> <<>>]
RecordAt(p) == IF p \in DOMAIN disk THEN disk[p] ELSE NoRecord
Whole(p) == RecordAt(p).state = "whole"

PutRecord(p, r) == [q \in DOMAIN disk \cup {p} |-> IF q = p THEN r ELSE disk[q]]

Nowhere == [pos |-> 0, len |-> 0]
Refs == {"info", "free", "topdir", "subdir", "topkeys", "subkeys"}
DirRef(d) == IF d = "top" THEN "topdir" ELSE "subdir"
KeysRef(d) == IF d = "top" THEN "topkeys" ELSE "subkeys"

-----------------------------------------------------------------------------
(* freeList.  Segments have inclusive bounds. *)

segLess(a, b) == a[1] < b[1] \/ (a[1] = b[1] /\ a[2] < b[2])

mergeAt(fl, i) ==
  IF fl[i - 1][2] + 1 < fl[i][1] THEN fl
  ELSE RemoveAt([fl EXCEPT ![i - 1][2] = IF fl[i][2] >= @ THEN fl[i][2] ELSE @], i)

consolidate(fl) == FoldLeft(mergeAt, fl, [k \in 1 .. Len(fl) - 1 |-> Len(fl) - k + 1])

add(fl, first, last) ==
  LET seg == <<first, last>>
      i == Len(SelectSeq(fl, LAMBDA s : ~segLess(seg, s)))
  IN  consolidate(SubSeq(fl, 1, i) \o <<seg>> \o SubSeq(fl, i + 1, Len(fl)))

\* The segment that holds [first, last].
find(fl, first, last) ==
  SelectSeq(fl, LAMBDA s : s[1] <= first /\ first <= s[2] /\ last <= s[2])[1]

\* setEnd, for a record of len bytes at the end of the file.
Allocate(len) ==
  /\ spans # <<>> /\ Last(spans)[2] = Big
  /\ end' = end + len
  /\ spans' = [spans EXCEPT ![Len(spans)][1] = end + len]

-----------------------------------------------------------------------------
(* The writes of a call.  A write is a record: what is written, for which  *)
(* directory, and the record it is about.                                  *)

W(what, dir, key, list) == [what |-> what, dir |-> dir, key |-> key, list |-> list]
NoKey == NoRecord.key
Plain(what, dir) == W(what, dir, NoKey, <<>>)

\* Key.writeFile: the key, with zeros for the payload, then the payload.
writeFile(key, list) == <<W("head", "top", key, list), W("body", "top", key, list)>>

DirLen == 3      \* a key and the directory's info
InfoLen == 2     \* a key and the streamer infos

Call(op, todo, dir, key) == [op |-> op, todo |-> todo, dir |-> dir, key |-> key]
Idle == Call("idle", <<>>, "top", NoKey)

TypeOK ==
  /\ \A p \in DOMAIN disk :
       disk[p].state \in {"head", "whole", "freed"} /\ disk[p].key \in Key
  /\ header \in [state : {"none", "zero", "ok"}, end : Nat, info : Nat, free : Nat, nfree : Nat]
  /\ end \in Nat
  /\ spans \in Seq(Nat \X Nat)
  /\ seek \in [Refs -> [pos : Nat, len : Nat]]
  /\ \A d \in Dirs : keys[d] \in Seq(Key) /\ Len(keys[d]) <= MaxPuts + 1
  /\ made \subseteq Dirs
  /\ pc.op \in {"idle", "create", "put", "mkdir", "close", "closed", "dead"}
  /\ \A a \in acked : a.dir \in Dirs /\ a.key \in Key
  /\ count \in [puts : 0 .. MaxPuts, fails : 0 .. MaxFails, closes : 0 .. MaxCloses,
               syncs : 0 .. MaxFails]

\* Create has allocated the record of the top directory.
Init ==
  LET key == KeyOf("dir", "top", 1, 0, Begin, DirLen) IN
  /\ disk = <<>>
  /\ header = [state |-> "none", end |-> 0, info |-> 0, free |-> 0, nfree |-> 0]
  /\ end = Begin + DirLen
  /\ spans = << <<Begin + DirLen, Big>> >>
  /\ seek = [r \in Refs |-> IF r = "topdir" THEN [pos |-> Begin, len |-> DirLen] ELSE Nowhere]
  /\ keys = [d \in Dirs |-> <<>>]
  /\ made = {"top"}
  /\ pc = Call("create", <<Plain("zero", "top"), Plain("header", "top"), Plain("sync", "top")>>
                         \o writeFile(key, <<Nowhere>>), "top", key)
  /\ acked = {}
  /\ count = [puts |-> 0, fails |-> 0, closes |-> 0, syncs |-> 0]

-----------------------------------------------------------------------------
\* Defect: every Put of a name has cycle 1.
cycleOne(d, name) == 1

\* The cycle Put gives to a new key.
cycleOf(d, name) ==
  1 + FoldLeft(LAMBDA c, k : IF k.name = name /\ k.cycle > c THEN k.cycle ELSE c, 0, keys[d])

\* Put: the record goes to the end of the file.
Put(d, name, len) ==
  /\ pc.op = "idle" /\ d \in made /\ count.puts < MaxPuts
  /\ LET key == KeyOf("obj", name, cycleOf(d, name), count.puts + 1, end, 1 + len) IN
     /\ Allocate(1 + len)
     /\ pc' = Call("put", writeFile(key, <<>>), d, key)
  /\ count' = [count EXCEPT !.puts = @ + 1]
  /\ UNCHANGED <<disk, header, seek, keys, made, acked>>

\* Mkdir and newDirectoryFile: the key is listed before it is written.
Mkdir ==
  /\ pc.op = "idle" /\ "sub" \notin made
  /\ LET key == KeyOf("dir", "sub", 1, 0, end, DirLen) IN
     /\ Allocate(DirLen)
     /\ keys' = [keys EXCEPT !["top"] = Append(@, key)]
     /\ seek' = [seek EXCEPT !["subdir"] = [pos |-> end, len |-> DirLen]]
     /\ pc' = Call("mkdir", writeFile(key, <<Nowhere>>), "sub", key)
  /\ UNCHANGED <<disk, header, made, acked, count>>

\* Defect: the record of a directory is updated before the list it will point to.
saveHeaderFirst(d) == <<Plain("dirinfo", d), Plain("keys", d)>>

\* tdirectoryFile.saveSelf
save(d) == <<Plain("keys", d), Plain("dirinfo", d)>>

\* Close: dir.close, writeStreamerInfo, writeFreeSegments, writeHeader, closer.Close.
Close ==
  /\ pc.op = "idle" /\ count.closes < MaxCloses
  /\ pc' = Call("close",
       save("top") \o (IF "sub" \in made THEN save("sub") ELSE <<>>)
       \o <<Plain("unlinkinfo", "top"), Plain("info", "top"),
            Plain("unlinkfree", "top"), Plain("free", "top"),
            Plain("zero", "top"), Plain("header", "top"), Plain("sync", "top"),
            Plain("closer", "top")>>, "top", NoKey)
  /\ count' = [count EXCEPT !.closes = @ + 1]
  /\ UNCHANGED <<disk, header, end, spans, seek, keys, made, acked>>

-----------------------------------------------------------------------------
(* One step of a call: the write at the head of todo, after what the code  *)
(* does in memory before it.                                               *)

Now == Head(pc.todo)
Rest == Tail(pc.todo)
Doing(what) == pc.todo # <<>> /\ Now.what = what

MayFail == count.fails < MaxFails /\ count' = [count EXCEPT !.fails = @ + 1]

\* A call that fails: Create and Mkdir give no file or directory, and Mkdir panics.
Failed == IF pc.op \in {"put", "close"} THEN Idle ELSE Call("dead", <<>>, "top", NoKey)

\* The write succeeds, or fails and leaves what was there before.
Written(after) ==
  \/ /\ disk' = after /\ pc' = [pc EXCEPT !.todo = Rest] /\ UNCHANGED count
  \/ /\ MayFail /\ pc' = Failed /\ UNCHANGED disk

WriteHead ==
  /\ Doing("head")
  /\ Written(PutRecord(Now.key.pos, [state |-> "head", key |-> Now.key, list |-> <<>>]))
  /\ UNCHANGED <<header, end, spans, seek, keys, made, acked>>

WriteBody ==
  /\ Doing("body")
  /\ Written(PutRecord(Now.key.pos, [state |-> "whole", key |-> Now.key, list |-> Now.list]))
  /\ UNCHANGED <<header, end, spans, seek, keys, made, acked>>

\* Allocate a record that ref refers to, and write it.
Record(ref, key, list) ==
  /\ Allocate(key.len)
  /\ seek' = [seek EXCEPT ![ref] = [pos |-> end, len |-> key.len]]
  /\ pc' = [pc EXCEPT !.todo = writeFile(key, list) \o Rest]
  /\ UNCHANGED <<disk, header, keys, made, acked, count>>

\* writeKeys
WriteKeys ==
  /\ Doing("keys")
  /\ LET ks == keys[Now.dir]
     IN  Record(KeysRef(Now.dir), KeyOf("keys", Now.dir, 1, 0, end, 1 + Len(ks)), ks)

\* writeHeader of a directory, over a part of its record.
WriteDirInfo ==
  /\ Doing("dirinfo")
  /\ LET p == seek[DirRef(Now.dir)].pos
     IN  Written(PutRecord(p, [disk[p] EXCEPT !.list = <<seek[KeysRef(Now.dir)]>>]))
  /\ UNCHANGED <<header, end, spans, seek, keys, made, acked>>

\* markFree: the segment joins the list and is marked on disk; a failure panics.
markFree(first, last) ==
  LET fl == add(spans, first, last)
      seg == find(fl, first, last)
  IN  /\ spans' = fl
      /\ end' = IF last = end - 1 THEN seg[1] ELSE end
      /\ \/ /\ disk' = IF seg[1] \in DOMAIN disk THEN [disk EXCEPT ![seg[1]].state = "freed"]
                                                 ELSE disk
            /\ pc' = [pc EXCEPT !.todo = Rest]
            /\ UNCHANGED count
         \/ /\ MayFail
            /\ pc' = Call("dead", <<>>, "top", NoKey)
            /\ UNCHANGED disk

\* Defect: one byte too many is freed.
UnlinkPast ==
  /\ Doing("unlinkinfo") \/ Doing("unlinkfree")
  /\ LET ref == seek[IF Now.what = "unlinkinfo" THEN "info" ELSE "free"]
     IN  \/ /\ ref.pos # 0
            /\ markFree(ref.pos, ref.pos + ref.len)
         \/ /\ ref.pos = 0
            /\ pc' = [pc EXCEPT !.todo = Rest]
            /\ UNCHANGED <<disk, spans, end, count>>
  /\ UNCHANGED <<header, seek, keys, made, acked>>

\* The record an earlier Close wrote is given up.
Unlink ==
  /\ Doing("unlinkinfo") \/ Doing("unlinkfree")
  /\ LET ref == seek[IF Now.what = "unlinkinfo" THEN "info" ELSE "free"]
     IN  \/ /\ ref.pos # 0
            /\ markFree(ref.pos, ref.pos + ref.len - 1)
         \/ /\ ref.pos = 0
            /\ pc' = [pc EXCEPT !.todo = Rest]
            /\ UNCHANGED <<disk, spans, end, count>>
  /\ UNCHANGED <<header, seek, keys, made, acked>>

\* writeStreamerInfo
WriteInfo ==
  /\ Doing("info")
  /\ Record("info", KeyOf("info", "", 1, 0, end, InfoLen), <<>>)

\* writeFreeSegments: the list as it is once its own record is allocated.
WriteFree ==
  /\ Doing("free")
  /\ LET len == 1 + Len(spans)
     IN  Record("free", KeyOf("free", "", 1, 0, end, len),
                [spans EXCEPT ![Len(spans)][1] = end + len])

\* writeHeader zeroes the header first, and does not look at the error of that ...
ZeroHeader ==
  /\ Doing("zero")
  /\ \/ header' = [header EXCEPT !.state = "zero"] /\ UNCHANGED count
     \/ MayFail /\ UNCHANGED header
  /\ pc' = [pc EXCEPT !.todo = Rest]
  /\ UNCHANGED <<disk, end, spans, seek, keys, made, acked>>

\* ... then writes it.
WriteHeader ==
  /\ Doing("header")
  /\ \/ /\ header' = [state |-> "ok", end |-> end, info |-> seek["info"].pos,
                      free |-> seek["free"].pos, nfree |-> Len(spans)]
        /\ pc' = [pc EXCEPT !.todo = Rest]
        /\ UNCHANGED count
     \/ MayFail /\ pc' = Failed /\ UNCHANGED header
  /\ UNCHANGED <<disk, end, spans, seek, keys, made, acked>>

Sync ==
  /\ Doing("sync")
  /\ \/ pc' = [pc EXCEPT !.todo = Rest] /\ UNCHANGED count
     \/ /\ count.fails < MaxFails
        /\ count' = [count EXCEPT !.fails = @ + 1, !.syncs = @ + 1]
        /\ pc' = Failed
  /\ UNCHANGED <<disk, header, end, spans, seek, keys, made, acked>>

\* Defect: after an error the file can be closed again.
CloseFileAgain ==
  /\ Doing("closer")
  /\ \/ pc' = Call("closed", <<>>, "top", NoKey) /\ UNCHANGED count
     \/ MayFail /\ pc' = Failed
  /\ UNCHANGED <<disk, header, end, spans, seek, keys, made, acked>>

\* The underlying file is closed; an error of that is returned, and is final.
CloseFile ==
  /\ Doing("closer")
  /\ \/ pc' = Call("closed", <<>>, "top", NoKey) /\ UNCHANGED count
     \/ MayFail /\ pc' = Call("dead", <<>>, "top", NoKey)
  /\ UNCHANGED <<disk, header, end, spans, seek, keys, made, acked>>

\* A call other than Close returns nil; Put lists its key only now.
Return ==
  /\ pc.op \in {"create", "put", "mkdir"} /\ pc.todo = <<>>
  /\ keys' = [keys EXCEPT ![pc.dir] = IF pc.op = "put" THEN Append(@, pc.key) ELSE @]
  /\ made' = made \cup {pc.dir}
  /\ acked' = IF pc.op = "put" THEN acked \cup {[dir |-> pc.dir, key |-> pc.key]} ELSE acked
  /\ pc' = Idle
  /\ UNCHANGED <<disk, header, end, spans, seek, count>>

Next ==
  \/ \E d \in Dirs, name \in Names, len \in Lens : Put(d, name, len)
  \/ Mkdir \/ Close \/ Return
  \/ WriteHead \/ WriteBody \/ WriteKeys \/ WriteDirInfo \/ Unlink \/ WriteInfo \/ WriteFree
  \/ ZeroHeader \/ WriteHeader \/ Sync \/ CloseFile

Spec == Init /\ [][Next]_vars

-----------------------------------------------------------------------------
(* What a reader finds: readHeader, readKeys and Get. *)

\* The keys the directory whose record is at p lists on disk.
KeysOnDisk(p) ==
  LET at == RecordAt(p).list[1].pos IN IF at = 0 THEN <<>> ELSE RecordAt(at).list

Opens ==
  /\ header.state = "ok" /\ Whole(Begin)
  /\ header.free # 0 => Whole(header.free)
  /\ header.info # 0 => Whole(header.info)
  /\ LET at == RecordAt(Begin).list[1].pos IN at # 0 => Whole(at)

\* Get without a cycle: what the key with the highest one leads to.
Get(p, name) ==
  LET ks == {KeysOnDisk(p)[i] : i \in DOMAIN KeysOnDisk(p)}
  IN  {k \in ks : k.name = name /\ \A j \in ks : j.name = name => j.cycle <= k.cycle}

(***************************************************************************)
(* Whenever the program stops, no directory on disk lists an object that   *)
(* is not there whole: records are written before the list that names      *)
(* them, and the list before the directory that points to it.              *)
(***************************************************************************)
ListedIsThere ==
  \A d \in Dirs :
    LET p == seek[DirRef(d)].pos IN
    Whole(p) /\ RecordAt(p).list[1].pos # 0 =>
      /\ Whole(RecordAt(p).list[1].pos)
      /\ \A i \in DOMAIN KeysOnDisk(p) :
           LET k == KeysOnDisk(p)[i] IN Whole(k.pos) /\ RecordAt(k.pos).key = k

(***************************************************************************)
(* When Close returns nil the file opens, every object whose Put returned  *)
(* nil is listed, and Get gives the last one put under a name, whatever    *)
(* writes failed before, in Put or in an earlier Close.                    *)
(***************************************************************************)
ClosedIsComplete ==
  pc.op = "closed" =>
    /\ Opens
    /\ \A a \in acked :
         LET p == seek[DirRef(a.dir)].pos IN
         /\ \E i \in DOMAIN KeysOnDisk(p) : KeysOnDisk(p)[i] = a.key
         /\ \A b \in acked :
              b.dir = a.dir /\ b.key.name = a.key.name /\ b.key.val > a.key.val =>
                a.key \notin Get(p, a.key.name)

(***************************************************************************)
(* The free list never covers a byte of a record in use, and its last      *)
(* segment, where the next record goes, begins at the end of the file: so  *)
(* nothing is ever written over an object, after any number of failed      *)
(* calls of Close, each of which gives up the records of the one before.   *)
(***************************************************************************)
FreeIsUnused ==
  /\ spans # <<>> /\ Last(spans) = <<end, Big>>
  /\ \A i \in 1 .. Len(spans) - 1 : spans[i][2] + 1 < spans[i + 1][1]
  /\ \A i \in 1 .. Len(spans) :
       \A k \in {keys[d][j] : <<d, j>> \in {<<"top", n>> : n \in DOMAIN keys["top"]}
                                       \cup {<<"sub", n>> : n \in DOMAIN keys["sub"]}}
             \cup {seek[r] : r \in Refs \ {"info", "free"}} :
         k.len = 0 \/ k.pos + k.len - 1 < spans[i][1] \/ spans[i][2] < k.pos

(***************************************************************************)
(* What the header on disk refers to is whole while the file is written:   *)
(* a crash during a second Close finds the streamer infos and the free     *)
(* list it names, or no header at all.  Not so when what failed in the     *)
(* first Close was the Sync after the header: the second one then marks    *)
(* as free what the header on disk refers to.                              *)
(***************************************************************************)
HeaderHolds ==
  header.state = "ok" /\ count.syncs = 0 =>
    /\ header.info # 0 => Whole(header.info)
    /\ header.free # 0 => Whole(header.free)

=============================================================================
