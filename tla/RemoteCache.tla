---------------------------- MODULE RemoteCache ----------------------------
(***************************************************************************)
(* Reading a remote ROOT file, groot/riofs/plugin/http: rcache keeps what  *)
(* was read in a local file (the store) and its spans in a sorted list     *)
(* (span.go); preader reads what is missing in blocks, several at a time.  *)
(*                                                                         *)
(* Goroutines call ReadAt at the same time.  Only mu protects the list:    *)
(* reads of the server and of the store interleave.                        *)
(***************************************************************************)
EXTENDS Integers, Sequences, SequencesExt

CONSTANTS
  Callers,    \* goroutines that call ReadAt
  Size,       \* bytes of the file
  BlkSize,    \* blkSize
  MaxErrors   \* bound: operations that fail

ASSUME RemoteCacheAssumption ==
  Size \in Nat \ {0} /\ BlkSize \in Nat \ {0} /\ MaxErrors \in Nat

VARIABLES
  sps,      \* rcache.sps
  store,    \* the bytes of the store: "hole", or "right" once they are the file's
  call,     \* the ReadAt of each caller
  errors    \* operations that failed so far

cacheVars == <<sps, store, call, errors>>

Bytes == 0 .. Size - 1
Span == [off : 0 .. Size, len : 0 .. Size]
Sp(off, len) == [off |-> off, len |-> len]
End(sp) == sp.off + sp.len
BytesOf(sp) == sp.off .. End(sp) - 1

-----------------------------------------------------------------------------
(* span.go *)

\* One turn of the loop of split: o is what is missing so far, sp what is left.
splitStep(s, v) ==
  LET sp == s.sp
      before == Sp(sp.off, v.off - sp.off)
      after == Sp(End(v), End(sp) - End(v))
      left(o, rest) == [o |-> o, sp |-> rest, done |-> rest.len = 0]
  IN  CASE s.done \/ End(v) <= sp.off -> s
        [] End(sp) <= v.off -> left(Append(s.o, sp), Sp(sp.off, 0))
        [] sp.off < v.off /\ End(v) <= End(sp) -> left(Append(s.o, before), after)
        [] sp.off < v.off /\ End(sp) < End(v) -> left(Append(s.o, before), Sp(sp.off, 0))
        [] v.off <= sp.off /\ End(sp) <= End(v) -> left(s.o, Sp(sp.off, 0))
        [] OTHER -> left(s.o, after)

\* The parts of sp that the spans of list do not cover.
split(sp, list) ==
  IF list = <<>> THEN <<sp>>
  ELSE LET s == FoldLeft(splitStep, [o |-> <<>>, sp |-> sp, done |-> FALSE], list)
       IN  IF s.sp.len # 0 THEN Append(s.o, s.sp) ELSE s.o

\* Merge the spans i - 1 and i if they touch.
mergeAt(list, i) ==
  LET ii == list[i]
      jj == list[i - 1]
  IN  IF End(jj) < ii.off THEN list
      ELSE RemoveAt(IF End(ii) >= End(jj)
                      THEN [list EXCEPT ![i - 1].len = @ + End(ii) - End(jj)] ELSE list, i)

\* Merge from the last pair to the first.
consolidate(list) ==
  FoldLeft(mergeAt, list, [k \in 1 .. Len(list) - 1 |-> Len(list) - k + 1])

spanLess(a, b) == a.off < b.off \/ (a.off = b.off /\ End(a) < End(b))

\* Defect: the list is not sorted.
addUnsorted(list, sp) == Append(list, sp)

\* spans.add: append, sort, consolidate.
add(list, sp) ==
  LET i == Len(SelectSeq(list, LAMBDA v : ~spanLess(sp, v)))
  IN  consolidate(SubSeq(list, 1, i) \o <<sp>> \o SubSeq(list, i + 1, Len(list)))

-----------------------------------------------------------------------------
(* ReadAt *)

\* A fetch: the span, the blocks preader has still to read, whether one failed.
Fetch == [sp : Span, todo : SUBSET Span, bad : BOOLEAN, at : {"read", "add", "done", "err"}]
Call == [at : {"idle", "fetch", "ok", "wrong", "err"}, sp : Span, fetches : Seq(Fetch)]
NoCall == [at |-> "idle", sp |-> Sp(0, 0), fetches |-> <<>>]

CacheTypeOK ==
  /\ sps \in Seq(Span)
  /\ store \in [Bytes -> {"hole", "right", "wrong"}]
  /\ call \in [Callers -> Call]
  /\ errors \in 0 .. MaxErrors

CacheInit ==
  /\ sps = <<>>
  /\ store = [b \in Bytes |-> "hole"]
  /\ call = [c \in Callers |-> NoCall]
  /\ errors = 0

MayErr == errors < MaxErrors /\ errors' = errors + 1

\* The blocks of preader.pread: one if the span is not longer than a block.
Blocks(sp) ==
  LET n == (sp.len + BlkSize - 1) \div BlkSize
  IN  {Sp(sp.off + i * BlkSize,
          IF (i + 1) * BlkSize <= sp.len THEN BlkSize ELSE sp.len - i * BlkSize)
        : i \in 0 .. n - 1}

\* ReadAt up to the goroutines it starts, one for each missing part.
ReadAt(c, sp) ==
  /\ call[c].at = "idle"
  /\ call' = [call EXCEPT ![c] =
       [at |-> "fetch", sp |-> sp,
        fetches |-> [i \in DOMAIN split(sp, sps) |->
          LET v == split(sp, sps)[i]
          IN  [sp |-> v, todo |-> Blocks(v), bad |-> FALSE, at |-> "read"]]]]
  /\ UNCHANGED <<sps, store, errors>>

\* A worker of pread reads a block from the server.
ReadBlock(c, i) ==
  /\ call[c].fetches[i].at = "read"
  /\ \E b \in call[c].fetches[i].todo :
       \/ /\ call' = [call EXCEPT ![c].fetches[i].todo = @ \ {b}]
          /\ UNCHANGED errors
       \/ /\ call' = [call EXCEPT ![c].fetches[i].todo = @ \ {b}, ![c].fetches[i].bad = TRUE]
          /\ MayErr
  /\ UNCHANGED <<sps, store>>

\* What WriteAt leaves: the bytes that were read, in place of whatever was there.
Written(f) ==
  [b \in Bytes |-> IF b \in BytesOf(f.sp) THEN (IF f.bad THEN "wrong" ELSE "right")
                                          ELSE store[b]]

\* fetch: when all the blocks are there, they go to the store.
WriteBlocks(c, i) ==
  LET f == call[c].fetches[i] IN
  /\ f.at = "read" /\ f.todo = {}
  /\ \/ /\ f.bad
        /\ call' = [call EXCEPT ![c].fetches[i].at = "err"]
        /\ UNCHANGED <<store, errors>>
     \/ /\ ~f.bad
        /\ store' = Written(f)
        /\ call' = [call EXCEPT ![c].fetches[i].at = "add"]
        /\ UNCHANGED errors
     \/ /\ ~f.bad /\ MayErr
        /\ call' = [call EXCEPT ![c].fetches[i].at = "err"]
        /\ UNCHANGED store
  /\ UNCHANGED sps

\* fetch, under mu: the span is recorded.
AddSpan(c, i) ==
  /\ call[c].fetches[i].at = "add"
  /\ sps' = add(sps, call[c].fetches[i].sp)
  /\ call' = [call EXCEPT ![c].fetches[i].at = "done"]
  /\ UNCHANGED <<store, errors>>

\* Defect: ReadAt goes on when one of its fetches is done.
ServeEarly(c) ==
  /\ call[c].at = "fetch"
  /\ \/ call[c].fetches = <<>>
     \/ \E i \in DOMAIN call[c].fetches : call[c].fetches[i].at \in {"done", "err"}
  /\ call' = [call EXCEPT ![c] =
       [NoCall EXCEPT !.sp = call[c].sp,
          !.at = IF \E i \in DOMAIN call[c].fetches : call[c].fetches[i].at = "err" THEN "err"
                 ELSE IF \A b \in BytesOf(call[c].sp) : store[b] = "right" THEN "ok"
                 ELSE "wrong"]]
  /\ UNCHANGED <<sps, store, errors>>

\* All fetches have returned: the answer is an error, or read from the store.
Serve(c) ==
  /\ call[c].at = "fetch"
  /\ \A i \in DOMAIN call[c].fetches : call[c].fetches[i].at \in {"done", "err"}
  /\ call' = [call EXCEPT ![c] =
       [NoCall EXCEPT !.sp = call[c].sp,
          !.at = IF \E i \in DOMAIN call[c].fetches : call[c].fetches[i].at = "err" THEN "err"
                 ELSE IF \A b \in BytesOf(call[c].sp) : store[b] = "right" THEN "ok"
                 ELSE "wrong"]]
  /\ UNCHANGED <<sps, store, errors>>

FetchStep(c) ==
  \/ \E i \in DOMAIN call[c].fetches : ReadBlock(c, i) \/ WriteBlocks(c, i) \/ AddSpan(c, i)
  \/ Serve(c)

-----------------------------------------------------------------------------
Recorded == UNION {BytesOf(sps[i]) : i \in DOMAIN sps}

(***************************************************************************)
(* A ReadAt that succeeds returns the bytes of the file: never a hole of   *)
(* the store, never the bytes of a read that failed.                       *)
(***************************************************************************)
ReadsRight == \A c \in Callers : call[c].at # "wrong"

(***************************************************************************)
(* Whatever list concurrent reads have built, split returns the bytes of   *)
(* the span that are not cached, each once and in order; also where the    *)
(* list holds spans that overlap, which consolidate can leave behind.      *)
(***************************************************************************)
SplitIsComplement ==
  \A off \in Bytes : \A len \in 1 .. Size - off :
    LET sp == Sp(off, len)
        o == split(sp, sps)
    IN  /\ UNION {BytesOf(o[i]) : i \in DOMAIN o} = BytesOf(sp) \ Recorded
        /\ \A i \in 1 .. Len(o) - 1 : End(o[i]) <= o[i + 1].off
        /\ \A i \in DOMAIN o : o[i].len > 0

=============================================================================
