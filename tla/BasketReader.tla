---------------------------- MODULE BasketReader ----------------------------
(***************************************************************************)
(* Reading a tree, groot/rtree: a Reader reads the entries of a range,     *)
(* and each branch has a goroutine (bkreader.run) that reads its baskets   *)
(* ahead.  n baskets go round between them: through reuse to the           *)
(* goroutine, through ready to the Reader.  The file is a remote one, and  *)
(* all goroutines read it through the cache of RemoteCache.                *)
(***************************************************************************)
EXTENDS RemoteCache

CONSTANTS
  Baskets,     \* of each branch, its baskets: the end of their entries, their bytes
  Scenarios,   \* what is explored: range, WithPrefetchBaskets, calls of Read and
               \* Reset (a bound), whether Other reads
  Other,       \* a goroutine that reads other things of the same file
  OtherSpans,  \* what it reads
  ResetTo      \* ranges given to Reset

Branches == DOMAIN Baskets
NBranches == Len(Baskets)
Entries == LET bs == Baskets[1] IN bs[Len(bs)].end

\* What Reader.setup accepts.
Ranges == {r \in [beg : 0 .. Entries, end : 0 .. Entries] : r.beg <= r.end}

ASSUME BasketReaderAssumption ==
  /\ \A s \in Scenarios : [beg |-> s.beg, end |-> s.end] \in Ranges /\ s.nrab \in Nat
  /\ ResetTo \subseteq Ranges
  /\ Callers = Branches \cup {Other} /\ Other \notin Branches
  /\ \A b \in Branches : Baskets[b][Len(Baskets[b])].end = Entries

VARIABLES
  range,   \* the entries to read, [beg, end)
  nrab,    \* the argument of WithPrefetchBaskets
  bk,      \* the bkreader of each branch
  cur,     \* rbranch.cur: the basket the branch is at, 0 for none
  main     \* the caller of the Reader: where it is, branch, entry, calls left

bkVars == <<range, nrab, bk, cur, main>>
vars == <<cacheVars, bkVars>>

Beg(b, k) == IF k = 1 THEN 0 ELSE Baskets[b][k - 1].end
Fin(b, k) == Baskets[b][k].end

\* n of newBkReader
NTokens(b, n) ==
  LET m == Len(Baskets[b])
  IN  IF n = 0 THEN 1 ELSE IF n > m THEN m ELSE n

\* First and last basket to read (iend is one past the last).
findBaskets(b, beg, end) ==
  LET ks == DOMAIN Baskets[b]
  IN  <<CHOOSE k \in ks : Beg(b, k) <= beg /\ beg < Fin(b, k),
        CHOOSE k \in ks : end <= Fin(b, k) /\ \A j \in 1 .. k - 1 : end > Fin(b, j)>>

\* A token is a basket's buffer: the basket in it, and what reading it gave.
Blank == [k |-> 0, res |-> "blank"]

newBkReader(b, n, beg, end) ==
  LET m == NTokens(b, n)
      empty == beg >= Entries
      f == findBaskets(b, beg, end)
  IN  [bkt |-> [t \in 1 .. m |-> Blank],
       reuse |-> [t \in 1 .. m |-> t], ready |-> <<>>, cur |-> 0,
       at |-> IF empty THEN "closed" ELSE "select",
       k |-> IF empty THEN 0 ELSE f[1], last |-> IF empty THEN 0 ELSE f[2], tok |-> 0]

-----------------------------------------------------------------------------
MainAt == {"new", "reset", "start", "entry", "call", "stop", "close", "idle", "gone", "renew"}

TypeOK ==
  /\ CacheTypeOK
  /\ range \in Ranges
  /\ nrab \in Nat
  /\ \A b \in Branches :
       LET Tok == 1 .. NTokens(b, nrab) IN
       bk[b] \in [bkt : [Tok -> [k : 0 .. Len(Baskets[b]), res : {"blank", "ok", "err", "wrong"}]],
                  reuse : SeqOf(Tok, Len(Baskets[b])), ready : SeqOf(Tok, Len(Baskets[b])),
                  cur : Tok \cup {0}, tok : Tok \cup {0},
                  at : {"select", "inflate", "read", "exit", "closed"},
                  k : 0 .. Len(Baskets[b]) + 1, last : 0 .. Len(Baskets[b])]
  /\ \A b \in Branches : cur[b] \in 0 .. Len(Baskets[b])
  /\ main \in [at : MainAt, b : Branches, i : 0 .. Entries, wait : {"no", "ready", "closed"},
               reads : Nat, others : BOOLEAN, then : {"idle", "gone", "renew"}]

\* NewReader
Init ==
  /\ CacheInit
  /\ \E s \in Scenarios :
       /\ range = [beg |-> s.beg, end |-> s.end]
       /\ nrab = s.nrab
       /\ main = [at |-> "new", b |-> 1, i |-> 0, wait |-> "no", reads |-> s.reads,
                  others |-> s.other, then |-> "idle"]
  /\ bk = [b \in Branches |-> newBkReader(b, nrab, range.beg, range.end)]
  /\ cur = [b \in Branches |-> 0]

-----------------------------------------------------------------------------
(* bkreader.run *)

RunFrame == UNCHANGED <<range, nrab, cur, main>>

\* The select of the loop, when there is a basket to read and one to read into.
TakeToken(b) ==
  /\ bk[b].at = "select" /\ bk[b].k <= bk[b].last /\ bk[b].reuse # <<>>
  /\ bk' = [bk EXCEPT ![b].reuse = Tail(@), ![b].tok = Head(bk[b].reuse), ![b].at = "inflate",
                      ![b].bkt[Head(bk[b].reuse)] = [k |-> bk[b].k, res |-> "blank"]]
  /\ RunFrame /\ UNCHANGED cacheVars

\* rbasket.inflate: the bytes of the basket are read from the file.
Inflate(b) ==
  /\ bk[b].at = "inflate"
  /\ ReadAt(b, Baskets[b][bk[b].k].sp)
  /\ bk' = [bk EXCEPT ![b].at = "read"]
  /\ RunFrame

Inflated == {"ok", "wrong", "err"}

\* Defect: a basket that could not be read is not handed over, nor its token.
HandOverOk(b) ==
  /\ bk[b].at = "read" /\ call[b].at \in Inflated
  /\ bk' = [bk EXCEPT ![b].at = "select", ![b].k = @ + 1, ![b].tok = 0,
                      ![b].ready = IF call[b].at = "err" THEN @ ELSE Append(@, bk[b].tok),
                      ![b].bkt[bk[b].tok].res = call[b].at]
  /\ call' = [call EXCEPT ![b] = NoCall]
  /\ RunFrame /\ UNCHANGED <<sps, store, errors>>

\* inflate returns, with or without an error; ready always has room.
HandOver(b) ==
  /\ bk[b].at = "read" /\ call[b].at \in Inflated
  /\ bk' = [bk EXCEPT ![b].at = "select", ![b].k = @ + 1, ![b].tok = 0,
                      ![b].ready = Append(@, bk[b].tok),
                      ![b].bkt[bk[b].tok].res = call[b].at]
  /\ call' = [call EXCEPT ![b] = NoCall]
  /\ RunFrame /\ UNCHANGED <<sps, store, errors>>

\* Returning closes ready, then closed.
RunEnd(b) ==
  /\ \/ bk[b].at = "select" /\ bk[b].k > bk[b].last
     \/ bk[b].at = "exit"
  /\ bk' = [bk EXCEPT ![b].at = "closed"]
  /\ RunFrame /\ UNCHANGED cacheVars

RunStep(b) == TakeToken(b) \/ Inflate(b) \/ HandOver(b) \/ RunEnd(b)

-----------------------------------------------------------------------------
(* The caller of the Reader.  Its steps are those of the functions of       *)
(* reader.go and rbranch.go that run or close the bkreader of branch main.b. *)

MainFrame == UNCHANGED <<cacheVars, range, nrab>>

Goto(at, b) == [main EXCEPT !.at = at, !.b = b, !.wait = "no"]

\* The next branch, or the next phase after the last one.
NextBranch(at, next) == IF main.b < NBranches THEN Goto(at, main.b + 1) ELSE Goto(next, 1)

\* Reader.Read
Read ==
  /\ main.at \in {"new", "idle"} /\ main.reads > 0
  /\ main' = [Goto("reset", 1) EXCEPT !.reads = @ - 1]
  /\ MainFrame /\ UNCHANGED <<bk, cur>>

\* Reader.Reset closes the bkreaders ...
Reset ==
  /\ main.at \in {"new", "idle"} /\ main.reads > 0
  /\ main' = [Goto("close", 1) EXCEPT !.then = "renew", !.reads = @ - 1]
  /\ MainFrame /\ UNCHANGED <<bk, cur>>

\* ... and makes new ones for another range.
Renew ==
  /\ main.at = "renew"
  /\ \E r \in ResetTo :
       /\ range' = r
       /\ bk' = [b \in Branches |-> newBkReader(b, nrab, r.beg, r.end)]
  /\ cur' = [b \in Branches |-> 0]
  /\ main' = [Goto("new", 1) EXCEPT !.then = "idle"]
  /\ UNCHANGED <<cacheVars, nrab>>

\* Reader.Close
UserClose ==
  /\ main.at \in {"new", "idle"}
  /\ main' = [Goto("close", 1) EXCEPT !.then = "gone"]
  /\ MainFrame /\ UNCHANGED <<bk, cur>>

Closing == main.at \in {"reset", "stop", "close"} /\ main.wait = "no"

\* rbranch.stop leaves alone a branch that has no basket.
Skip == main.at = "stop" /\ cur[main.b] = 0

\* bkreader.close: exit is taken by a goroutine that waits in its select.
SendExit ==
  /\ Closing /\ ~Skip
  /\ bk[main.b].at = "select" /\ bk[main.b].k <= bk[main.b].last
  /\ bk' = [bk EXCEPT ![main.b].at = "exit"]
  /\ main' = [main EXCEPT !.wait = "closed"]
  /\ MainFrame /\ UNCHANGED cur

AfterClose(b) ==
  CASE main.at = "reset" ->
         /\ bk' = [bk EXCEPT ![b] = newBkReader(b, nrab, range.beg, range.end)]
         /\ main' = NextBranch("reset", "start")
    [] main.at = "stop" ->
         /\ main' = NextBranch("stop", "close")
         /\ UNCHANGED bk
    [] main.at = "close" ->
         /\ main' = NextBranch("close", main.then)
         /\ UNCHANGED bk

\* Defect: close waits to hand over exit also after the goroutine has ended.
ClosedSent ==
  /\ \/ Closing /\ Skip
     \/ /\ main.at \in {"reset", "stop", "close"} /\ main.wait = "closed"
        /\ bk[main.b].at = "closed"
  /\ AfterClose(main.b)
  /\ MainFrame /\ UNCHANGED cur

\* Defect: Close leaves alone the branches that have no basket, as stop does.
ClosedStarted ==
  /\ \/ main.at \in {"stop", "close"} /\ main.wait = "no" /\ cur[main.b] = 0
     \/ main.at \in {"reset", "stop", "close"} /\ bk[main.b].at = "closed"
  /\ AfterClose(main.b)
  /\ MainFrame /\ UNCHANGED cur

\* bkreader.close returns once the goroutine has ended.
Closed ==
  /\ \/ Closing /\ Skip
     \/ main.at \in {"reset", "stop", "close"} /\ ~Skip /\ bk[main.b].at = "closed"
  /\ AfterClose(main.b)
  /\ MainFrame /\ UNCHANGED cur

\* Whether the branch has to go on to its next basket, in start and in rbranch.read.
NeedsRead ==
  \/ main.at = "start"
  \/ main.at = "entry" /\ main.i < range.end /\ main.i >= Fin(main.b, cur[main.b])

\* bkreader.read: the basket that was served goes to reuse, which has room for it.
GiveBack ==
  /\ NeedsRead /\ main.wait = "no"
  /\ bk' = [bk EXCEPT ![main.b].cur = 0,
                      ![main.b].reuse = IF bk[main.b].cur = 0 THEN @
                                        ELSE Append(@, bk[main.b].cur)]
  /\ main' = [main EXCEPT !.wait = "ready"]
  /\ MainFrame /\ UNCHANGED cur

\* What start and rtree.read do after a branch.
AfterRead == main' = IF main.at = "start"
                       THEN [NextBranch("start", "entry") EXCEPT !.i = range.beg]
                       ELSE NextBranch("entry", "call")

\* Defect: the basket received is offered for reuse at once.
ReceiveReuse ==
  LET b == main.b
      tok == Head(bk[b].ready)
  IN  /\ main.wait = "ready" /\ bk[b].ready # <<>>
      /\ bk' = [bk EXCEPT ![b].ready = Tail(@), ![b].reuse = Append(@, tok)]
      /\ cur' = [cur EXCEPT ![b] = bk[b].bkt[tok].k]
      /\ \/ bk[b].bkt[tok].res # "err" /\ AfterRead
         \/ bk[b].bkt[tok].res = "err" /\ main' = Goto(IF main.at = "start" THEN "close" ELSE "stop", 1)
      /\ MainFrame

\* bkreader.read: the next basket; its error ends the Read.
Receive ==
  LET b == main.b
      tok == Head(bk[b].ready)
  IN  /\ main.wait = "ready" /\ bk[b].ready # <<>>
      /\ bk' = [bk EXCEPT ![b].ready = Tail(@), ![b].cur = tok]
      /\ cur' = [cur EXCEPT ![b] = bk[b].bkt[tok].k]
      /\ \/ bk[b].bkt[tok].res # "err" /\ AfterRead
         \/ bk[b].bkt[tok].res = "err" /\ main' = Goto(IF main.at = "start" THEN "close" ELSE "stop", 1)
      /\ MainFrame

\* bkreader.read returns io.EOF: start takes it for an empty range, and starts
\* no other branch; for rtree.read it is an error.
ReceiveEOF ==
  /\ main.wait = "ready" /\ bk[main.b].ready = <<>> /\ bk[main.b].at = "closed"
  /\ cur' = [cur EXCEPT ![main.b] = 0]
  /\ main' = IF main.at = "start" THEN [Goto("entry", 1) EXCEPT !.i = range.beg]
                                  ELSE Goto("stop", 1)
  /\ MainFrame /\ UNCHANGED bk

\* rbranch.read finds the entry in the basket it has.
SameBasket ==
  /\ main.at = "entry" /\ main.i < range.end
  /\ cur[main.b] # 0 /\ main.i < Fin(main.b, cur[main.b])
  /\ AfterRead
  /\ MainFrame /\ UNCHANGED <<bk, cur>>

\* The user's function returns, perhaps with an error.
CallReturns ==
  /\ main.at = "call"
  /\ \/ main' = [Goto("entry", 1) EXCEPT !.i = @ + 1]
     \/ main' = Goto("stop", 1)
  /\ MainFrame /\ UNCHANGED <<bk, cur>>

\* The loop over the entries ends.
LoopEnd ==
  /\ main.at = "entry" /\ main.b = 1 /\ main.i = range.end
  /\ main' = Goto("stop", 1)
  /\ MainFrame /\ UNCHANGED <<bk, cur>>

MainStep ==
  \/ SendExit \/ Closed
  \/ GiveBack \/ Receive \/ ReceiveEOF
  \/ SameBasket \/ CallReturns \/ LoopEnd \/ Renew

\* Another goroutine reads the file through the same cache.
OtherReads ==
  /\ main.others /\ main' = [main EXCEPT !.others = FALSE]
  /\ \E sp \in OtherSpans : ReadAt(Other, sp)
  /\ UNCHANGED <<range, nrab, bk, cur>>

Fetching == (\E c \in Callers : FetchStep(c)) /\ UNCHANGED bkVars

Next ==
  \/ Read \/ Reset \/ UserClose \/ MainStep
  \/ \E b \in Branches : RunStep(b)
  \/ OtherReads \/ Fetching

Spec == Init /\ [][Next]_vars

\* Goroutines that can go on do, and the server answers, with data or an error.
Progress == MainStep \/ (\E b \in Branches : RunStep(b)) \/ Fetching

FairSpec == Spec /\ WF_vars(Progress)

-----------------------------------------------------------------------------
(***************************************************************************)
(* When the user's function is called, every branch serves the basket that *)
(* holds the entry, read without error, and nothing has been read over it: *)
(* read-ahead never reaches the buffer in use, skips no basket and repeats *)
(* none, whatever the sizes of the baskets of the branches.                *)
(***************************************************************************)
ServesEntry ==
  main.at = "call" =>
    \A b \in Branches :
      LET t == bk[b].cur IN
      /\ t # 0 /\ bk[b].bkt[t].res = "ok" /\ bk[b].bkt[t].k = cur[b]
      /\ Beg(b, cur[b]) <= main.i /\ main.i < Fin(b, cur[b])

(***************************************************************************)
(* Each basket buffer is in one place: to be reused, being filled, ready   *)
(* or served.  That is why the sends on reuse and ready, whose capacity is *)
(* the number of buffers, never block.                                     *)
(***************************************************************************)
OnePlaceEach ==
  \A b \in Branches :
    LET places == bk[b].reuse \o bk[b].ready
                  \o SelectSeq(<<bk[b].cur, bk[b].tok>>, LAMBDA t : t # 0)
    IN  /\ Len(places) = NTokens(b, nrab)
        /\ \A t \in 1 .. NTokens(b, nrab) : \E i \in DOMAIN places : places[i] = t

(***************************************************************************)
(* After Read and after Close no goroutine of the Reader is left, and no   *)
(* read of theirs: also when a basket could not be read, when the user's   *)
(* function failed, and when the range was empty, so that not all branches *)
(* were started.                                                           *)
(***************************************************************************)
NoneLeft ==
  main.at \in {"idle", "gone"} =>
    \A b \in Branches : bk[b].at = "closed" /\ call[b].at = "idle"

(***************************************************************************)
(* Read and Close return: the Reader never waits for a goroutine that      *)
(* waits for it, and close never hands exit to one that has ended.         *)
(***************************************************************************)
ReadReturns ==
  main.at \notin {"new", "idle", "gone"} ~> main.at \in {"new", "idle", "gone"}

=============================================================================
