----------------------------- MODULE CopyProofs -----------------------------
(***************************************************************************)
(* Proofs about module Copy, for any groups of calls, any sizes and any    *)
(* number of failures, deaths of the process and replaced sources.         *)
(***************************************************************************)
EXTENDS Copy, TLAPS

\* The destination of f holds chunks of the source as it is, from the first on ...
Part(f) == Len(dst[f]) <= src[f].size /\ \A i \in 1 .. Len(dst[f]) : dst[f][i] = Chunk(f, i)

\* ... or all of them.
Whole(f) == Part(f) /\ Len(dst[f]) = src[f].size

\* A resumed attempt trusts what an earlier one left, which is right if the source was
\* never replaced.
Trusted(f) == resume => src[f].ver = 0

\* Where call c is agrees with the kind of copy it makes, with the job on the destination
\* server and with the key at the source server.
Stage(c) ==
  /\ job[c].at \in {"source", "dest", "wait"} => Kind(c) = "tpc"
  /\ job[c].at \in {"open", "copy", "verify"} => Kind(c) # "tpc"
  /\ job[c].at = "verify" => Kind(c) = "down"
  /\ pull[c] # "none" => job[c].at = "wait"
  /\ job[c].at \in {"dest", "sync", "wait"} /\ Kind(c) = "tpc" => c \in key
  /\ job[c].at = "copy" => job[c].off = Len(dst[File(c)])
  /\ group # "run" => ~Active(c)
  /\ group = "ok" => job[c].at = "ok"

\* How far call c is with file f, the one it is at.
Doing(c, f) ==
  /\ job[c].at \in {"copy", "wait"} => Part(f)
  /\ job[c].at = "copy" => job[c].size = src[f].size
  /\ job[c].at \in {"sync", "verify"} /\ Kind(c) # "tpc" => Whole(f)
  /\ job[c].at = "sync" /\ Kind(c) = "tpc" => dst[f] = <<>>
  /\ job[c].at = "ok" \/ pull[c] = "ok" => Whole(f)

\* What call c has done to the k-th file of its walk.
Done(c, k) ==
  LET f == Walk(c)[k] IN
  f \in settled /\ Trusted(f) => /\ k < job[c].i \/ job[c].at = "ok" => Whole(f)
                                 /\ k = job[c].i => Doing(c, f)

CallInv(c) == Stage(c) /\ \A k \in DOMAIN Walk(c) : Done(c, k)

\* Between attempts that resume, a destination is a part of its source.
Resumable == resume => \A f \in Files : Trusted(f) => Part(f)

CInv == TypeOK /\ Resumable /\ \A c \in Calls : CallInv(c)

-----------------------------------------------------------------------------
(* The calls of a group, and what a step does to where a call is. *)

LEMMA MaxSizeType == MaxSize \in Sizes /\ MaxSize \in Nat /\ \A n \in Sizes : n \in Nat /\ n <= MaxSize
  BY CopyAssumption, Zenon DEF MaxSize

LEMMA CallFacts ==
  ASSUME calls \in Groups, NEW c \in Calls
  PROVE  /\ Walk(c) \in Seq(Files) /\ Len(Walk(c)) \in Nat \ {0} /\ DOMAIN Walk(c) = 1 .. Len(Walk(c))
         /\ Kind(c) \in {"down", "up", "local", "tpc"}
         /\ Kind(c) = "tpc" => Len(Walk(c)) = 1
<1>1. calls \in Seq(Call) /\ calls[c].walk # <<>> /\ (calls[c].kind = "tpc" => Len(calls[c].walk) = 1)
  BY CopyAssumption, Zenon DEF Calls
<1>2. calls[c] \in Call
  BY <1>1 DEF Calls
<1>3. Walk(c) \in Seq(Files) /\ Kind(c) \in {"down", "up", "local", "tpc"} /\ Walk(c) # <<>>
  BY <1>1, <1>2, Zenon DEF Call, Walk, Kind
<1>4. QED
  BY <1>1, <1>3 DEF Walk, Kind

\* A file is copied by one call, once.
LEMMA OneOwner ==
  ASSUME calls \in Groups, NEW c \in Calls, NEW d \in Calls,
         NEW k \in DOMAIN Walk(c), NEW l \in DOMAIN Walk(d), Walk(c)[k] = Walk(d)[l]
  PROVE  c = d /\ k = l
<1>1. c # d => Range(calls[c].walk) \cap Range(calls[d].walk) = {}
  BY CopyAssumption, Zenon DEF Calls
<1>2. Walk(c)[k] \in Range(calls[c].walk) /\ Walk(d)[l] \in Range(calls[d].walk)
  BY Zenon DEF Range, Walk
<1>3. c = d
  BY <1>1, <1>2, Zenon
<1>4. IsInjective(calls[c].walk)
  BY CopyAssumption, Zenon DEF Calls
<1>5. QED
  BY <1>3, <1>4, Zenon DEF IsInjective, Walk

\* Call c is now at a, with file i of its walk at offset o of size z; no other call moved.
Moved(c, a, i, o, z) ==
  /\ job' = [job EXCEPT ![c] = JobAt(a, i, o, z)]
  /\ job'[c].at = a /\ job'[c].i = i /\ job'[c].off = o /\ job'[c].size = z
  /\ \A d \in Calls : d # c => job'[d] = job[d]

\* Call c is now at a, and nothing else about it changed.
MovedTo(c, a) == Moved(c, a, job[c].i, job[c].off, job[c].size)

LEMMA JobFields ==
  ASSUME TypeOK, NEW c \in Calls
  PROVE  job[c] \in Job /\ job \in [Calls -> Job]
  BY Zenon DEF TypeOK

LEMMA Moves ==
  ASSUME TypeOK, NEW c \in Calls, NEW a, NEW i, NEW o, NEW z,
         job' = [job EXCEPT ![c] = JobAt(a, i, o, z)]
  PROVE  Moved(c, a, i, o, z)
  BY JobFields, Zenon DEF Moved, JobAt

LEMMA GotoMoves ==
  ASSUME TypeOK, NEW c \in Calls, NEW a, Goto(c, a)
  PROVE  MovedTo(c, a)
<1>1. [job[c] EXCEPT !.at = a] = JobAt(a, job[c].i, job[c].off, job[c].size)
  BY JobFields DEF Job, JobAt
<1>2. QED
  BY <1>1, Moves, Zenon DEF Goto, MovedTo

LEMMA NextFileMoves ==
  ASSUME TypeOK, NEW c \in Calls, NextFile(c)
  PROVE  IF job[c].i = Len(Walk(c)) THEN MovedTo(c, "ok") ELSE Moved(c, "open", job[c].i + 1, 0, 0)
<1>1. [job[c] EXCEPT !.at = "ok"] = JobAt("ok", job[c].i, job[c].off, job[c].size)
  BY JobFields DEF Job, JobAt
<1>2. QED
  BY <1>1, Moves, Zenon DEF NextFile, MovedTo

LEMMA OpenAtMoves ==
  ASSUME TypeOK, NEW c \in Calls, NEW o, OpenAt(c, o)
  PROVE  Moved(c, "copy", job[c].i, o, src[File(c)].size)
  BY Moves, Zenon DEF OpenAt

LEMMA ChunkMoves ==
  ASSUME TypeOK, NEW c \in Calls, job' = [job EXCEPT ![c].off = @ + 1]
  PROVE  Moved(c, job[c].at, job[c].i, job[c].off + 1, job[c].size)
<1>1. [job[c] EXCEPT !.off = job[c].off + 1] = JobAt(job[c].at, job[c].i, job[c].off + 1, job[c].size)
  BY JobFields DEF Job, JobAt
<1>2. QED
  BY <1>1, Moves, Zenon

\* Only the destination of the file call c is at may have changed.
OnlyMine(c) == \A f \in Files : f # File(c) => dst'[f] = dst[f]

LEMMA FileType ==
  ASSUME TypeOK, NEW c \in Calls
  PROVE  File(c) \in Files /\ job[c].i \in DOMAIN Walk(c) /\ src[File(c)].size \in Sizes
         /\ src[File(c)].ver \in Versions /\ dst[File(c)] \in Seq(Chunks)
         /\ Len(dst[File(c)]) \in Nat
<1>1. job[c].i \in DOMAIN Walk(c) /\ calls \in Groups
  BY Zenon DEF TypeOK
<1>2. File(c) \in Files
  BY <1>1, CallFacts DEF File
<1>3. QED
  BY <1>1, <1>2 DEF TypeOK

\* The file call c is at gets its next chunk, or is emptied.
Grown(c) == dst' = [dst EXCEPT ![File(c)] = Append(@, Chunk(File(c), Len(@) + 1))]
Emptied(c) == dst' = [dst EXCEPT ![File(c)] = <<>>]

\* The types of the destinations.
Holds == dst \in [Files -> Seq(Chunks)] /\ \A f \in Files : Len(dst[f]) <= MaxSize

LEMMA FixedTypes == MaxSize' = MaxSize /\ Versions' = Versions /\ Chunks' = Chunks
  BY Zenon DEF Chunks, Versions, MaxSize

LEMMA GrownEffect ==
  ASSUME TypeOK, NEW c \in Calls, NEW f, f = File(c), Grown(c), Len(dst[f]) < src[f].size, UNCHANGED src
  PROVE  /\ Holds' /\ OnlyMine(c)
         /\ dst'[f] = Append(dst[f], Chunk(f, Len(dst[f]) + 1)) /\ Len(dst'[f]) = Len(dst[f]) + 1
         /\ Part(f) => Part(f)'
<1> DEFINE n == Len(dst[f]) + 1
<1>1. /\ f \in Files /\ src[f].size \in Nat /\ src[f].size <= MaxSize /\ MaxSize \in Nat
      /\ src[f].ver \in Versions /\ dst[f] \in Seq(Chunks) /\ Len(dst[f]) \in Nat
  BY FileType, MaxSizeType, Zenon
<1>2. dst \in [Files -> Seq(Chunks)] /\ \A e \in Files : Len(dst[e]) <= MaxSize
  BY Zenon DEF TypeOK
<1>3. n \in 1 .. MaxSize /\ n <= src[f].size
  BY <1>1
<1>4. Chunk(f, n) \in Chunks
  BY <1>1, <1>3, Zenon DEF Chunk, Chunks
<1>5. dst' = [dst EXCEPT ![f] = Append(dst[f], Chunk(f, n))]
  BY Zenon DEF Grown
<1>6. /\ Append(dst[f], Chunk(f, n)) \in Seq(Chunks) /\ Len(Append(dst[f], Chunk(f, n))) = n
      /\ \A i \in 1 .. n : Append(dst[f], Chunk(f, n))[i] = IF i = n THEN Chunk(f, n) ELSE dst[f][i]
  BY <1>1, <1>4
<1>7. dst' \in [Files -> Seq(Chunks)] /\ dst'[f] = Append(dst[f], Chunk(f, n))
      /\ \A e \in Files : e # f => dst'[e] = dst[e]
  BY <1>1, <1>2, <1>5, <1>6, Zenon
<1>8. Holds'
  <2>1. \A e \in Files : Len(dst'[e]) <= MaxSize
    BY <1>2, <1>3, <1>6, <1>7
  <2>2. QED
    BY <1>7, <2>1, Zenon DEF Holds
<1>9. Part(f) => Part(f)'
  BY <1>3, <1>6, <1>7 DEF Part, Chunk
<1>10. QED
  BY <1>7, <1>8, <1>9 DEF OnlyMine

LEMMA EmptiedEffect ==
  ASSUME TypeOK, NEW c \in Calls, NEW f, f = File(c), Emptied(c), UNCHANGED src
  PROVE  Holds' /\ OnlyMine(c) /\ dst'[f] = <<>> /\ Len(dst'[f]) = 0 /\ Part(f)'
<1>1. /\ f \in Files /\ src[f].size \in Nat /\ MaxSize \in Nat
      /\ dst \in [Files -> Seq(Chunks)] /\ \A e \in Files : Len(dst[e]) <= MaxSize
  BY FileType, MaxSizeType, Zenon DEF TypeOK
<1>2. dst' \in [Files -> Seq(Chunks)] /\ dst'[f] = <<>> /\ \A e \in Files : e # f => dst'[e] = dst[e]
  BY <1>1 DEF Emptied
<1>3. \A e \in Files : Len(dst'[e]) <= MaxSize
  <2>1. Len(dst'[f]) <= MaxSize
    BY <1>1, <1>2
  <2>2. QED
    BY <1>1, <1>2, <2>1, Zenon
<1>4. Holds'
  BY <1>2, <1>3, FixedTypes, Zenon DEF Holds
<1>5. QED
  BY <1>1, <1>2, <1>4 DEF OnlyMine, Part

LEMMA SameHolds ==
  ASSUME TypeOK, NEW c \in Calls, UNCHANGED dst
  PROVE  Holds' /\ OnlyMine(c)
  BY Zenon DEF TypeOK, Holds, OnlyMine

\* What a step of call c leaves alone.
Others(c) ==
  /\ UNCHANGED <<opts, src, group, settled>>
  /\ OnlyMine(c)
  /\ \A d \in Calls : d # c => job'[d] = job[d] /\ pull'[d] = pull[d] /\ (d \in key' <=> d \in key)

LEMMA TypeKept ==
  ASSUME TypeOK, NEW c \in Calls, Holds',
         NEW a \in {"queued", "start", "open", "copy", "sync", "verify", "source", "dest", "wait", "ok", "err"},
         NEW i \in DOMAIN Walk(c), NEW o \in 0 .. MaxSize, NEW z \in 0 .. MaxSize,
         Moved(c, a, i, o, z), UNCHANGED <<opts, src, group, settled>>,
         pull' \in [Calls -> {"none", "run", "ok", "err"}], key' \subseteq Calls, fails' \in 0 .. MaxFails
  PROVE  TypeOK'
<1>1. JobAt(a, i, o, z) \in Job
  <2>1. i \in Nat
    BY CallFacts
  <2>2. QED
    BY <2>1, Zenon DEF JobAt, Job
<1>2. job' \in [Calls -> Job]
  BY <1>1, Zenon DEF Moved, TypeOK
<1>3. \A d \in Calls : job'[d].i \in DOMAIN Walk(d)
  BY Zenon DEF Moved, TypeOK
<1>4. /\ Calls' = Calls /\ Copied' = Copied /\ \A d \in Calls : Walk(d)' = Walk(d)
      /\ calls' = calls /\ resume' = resume /\ Job' = Job
  BY Zenon DEF opts, Calls, Copied, Walk, Job
<1>5. QED
  BY <1>2, <1>3, <1>4, Zenon DEF TypeOK, Holds

-----------------------------------------------------------------------------
(* A step of one call. *)

LEMMA PartSame ==
  ASSUME NEW f, dst'[f] = dst[f], UNCHANGED <<opts, src>>
  PROVE  (Part(f)' <=> Part(f)) /\ (Whole(f)' <=> Whole(f)) /\ (Trusted(f)' <=> Trusted(f))
  BY Zenon DEF Part, Whole, Trusted, Chunk, opts

LEMMA TrustedSame ==
  ASSUME NEW f, UNCHANGED <<opts, src>>
  PROVE  (Trusted(f)' <=> Trusted(f))
  BY Zenon DEF Trusted, opts

\* The other calls' files are not this call's.
LEMMA CallKeeps ==
  ASSUME CInv, NEW c \in Calls, Others(c), TypeOK', CallInv(c)',
         NEW f, f = File(c), resume /\ Trusted(f) => Part(f)'
  PROVE  CInv'
<1>0. /\ TypeOK /\ UNCHANGED <<opts, src, group, settled>> /\ Calls' = Calls /\ calls \in Groups
      /\ \A d \in Calls : Walk(d)' = Walk(d) /\ Kind(d)' = Kind(d)
  BY Zenon DEF CInv, TypeOK, Others, opts, Calls, Walk, Kind
<1>1. ASSUME NEW d \in Calls, d # c
      PROVE  CallInv(d)'
  <2>0. job'[d] = job[d] /\ pull'[d] = pull[d] /\ (d \in key' <=> d \in key) /\ CallInv(d)
    BY <1>1, Zenon DEF Others, CInv
  <2>1. ASSUME NEW k \in DOMAIN Walk(d)
        PROVE  dst'[Walk(d)[k]] = dst[Walk(d)[k]]
    <3>1. Walk(d)[k] \in Files
      BY <1>0, CallFacts
    <3>2. Walk(d)[k] # File(c)
      BY <1>0, <1>1, FileType, OneOwner, ZenonT(60) DEF File
    <3>3. QED
      BY <3>1, <3>2, Zenon DEF Others, OnlyMine
  <2>2. Stage(d)'
    <3>1. job[d].i \in DOMAIN Walk(d) /\ File(d)' = File(d) /\ File(d) = Walk(d)[job[d].i]
      BY <1>0, <2>0, FileType, Zenon DEF File
    <3>2. dst'[File(d)] = dst[File(d)]
      BY <2>1, <3>1, Zenon
    <3>3. Stage(d)
      BY <2>0, Zenon DEF CallInv
    <3>4. QED
      BY <1>0, <2>0, <3>1, <3>2, <3>3, Zenon DEF Stage, Active
  <2>3. ASSUME NEW k \in DOMAIN Walk(d)
        PROVE  Done(d, k)'
    <3>1. Done(d, k)
      BY <2>0, Zenon DEF CallInv
    <3>2. dst'[Walk(d)[k]] = dst[Walk(d)[k]]
      BY <2>1, Zenon
    <3> DEFINE g == Walk(d)[k]
    <3>3. (Part(g)' <=> Part(g)) /\ (Whole(g)' <=> Whole(g)) /\ (Trusted(g)' <=> Trusted(g)) /\ (Walk(d)[k])' = g
      BY <1>0, <3>2, PartSame, Zenon
    <3> HIDE DEF g
    <3>4. QED
      BY <1>0, <2>0, <3>1, <3>2, <3>3, Zenon DEF Done, Doing, g
  <2>4. QED
    BY <1>0, <2>2, <2>3, Zenon DEF CallInv
<1>2. Resumable'
  <2>1. ASSUME NEW e \in Files, resume, Trusted(e)
        PROVE  Part(e)'
    <3>1. CASE e = f
      BY <2>1, <3>1, Zenon
    <3>2. CASE e # f
      <4>1. dst'[e] = dst[e] /\ Part(e)
        BY <2>1, <3>2, Zenon DEF CInv, Resumable, Others, OnlyMine
      <4>2. QED
        BY <1>0, <4>1, PartSame, Zenon
    <3>3. QED
      BY <3>1, <3>2, Zenon
  <2>2. resume' = resume /\ \A e \in Files : (Trusted(e)' <=> Trusted(e))
    BY <1>0, TrustedSame, Zenon DEF opts
  <2>3. QED
    BY <2>1, <2>2, Zenon DEF Resumable
<1>3. QED
  BY <1>0, <1>1, <1>2, Zenon DEF CInv

\* A call that stays at its file: what is to be shown is about that file alone.
LEMMA SameFile ==
  ASSUME CInv, NEW c \in Calls, Others(c), TypeOK', NEW f, f = File(c),
         job'[c].i = job[c].i, job'[c].at = "ok" => job[c].i = Len(Walk(c)),
         Stage(c)', f \in settled /\ Trusted(f) => Doing(c, f)',
         resume /\ Trusted(f) => Part(f)'
  PROVE  CInv'
<1>t. TypeOK /\ calls \in Groups
  BY Zenon DEF CInv, TypeOK
<1>j. job[c].i \in DOMAIN Walk(c) /\ Len(Walk(c)) \in Nat
  BY DEF CInv, TypeOK, opts
<1>0. /\ UNCHANGED <<opts, src, group, settled>> /\ Walk(c)' = Walk(c) /\ CallInv(c)
      /\ DOMAIN Walk(c) = 1 .. Len(Walk(c))
  BY CallFacts, FileType DEF CInv, Others, opts, Walk
<1>1. ASSUME NEW k \in DOMAIN Walk(c)
      PROVE  Done(c, k)'
  <2> DEFINE g == Walk(c)[k]
  <2>1. (Trusted(g)' <=> Trusted(g)) /\ (Walk(c)[k])' = g /\ settled' = settled
    BY <1>t, <1>0, TrustedSame, Zenon
  <2>2. CASE k = job[c].i
    <3>1. g = f
      BY <2>2, Zenon DEF File
    <3>2. CASE g \in settled /\ Trusted(g)
      <4>1. Doing(c, f)' /\ (job'[c].at = "ok" => Whole(f)')
        BY <3>1, <3>2, Zenon DEF Doing
      <4>2. ~(k < job'[c].i)
        BY <1>t, <1>0, <2>2
      <4>3. QED
        BY <2>1, <3>1, <4>1, <4>2, Zenon DEF Done
    <3>3. CASE ~(g \in settled /\ Trusted(g))
      BY <2>1, <3>3, Zenon DEF Done
    <3>4. QED
      BY <3>2, <3>3, Zenon
  <2>3. CASE k # job[c].i
    <3>1. g \in Files /\ g # f
      BY <1>t, <1>j, <2>3, CallFacts, OneOwner DEF File
    <3>2. dst'[g] = dst[g]
      BY <3>1, Zenon DEF Others, OnlyMine
    <3>3. (Whole(g)' <=> Whole(g))
      BY <1>0, <3>2, PartSame, Zenon
    <3>4. Done(c, k)
      BY <1>j, <1>0, Zenon DEF CallInv
    <3>5. job'[c].at = "ok" => k < job[c].i
      BY <2>3
    <3> HIDE DEF g
    <3>6. QED
      BY <2>1, <2>3, <3>3, <3>4, <3>5, Zenon DEF Done, g
  <2>4. QED
    BY <2>2, <2>3, Zenon
<1>2. CallInv(c)'
  BY <1>0, <1>1, Zenon DEF CallInv
<1>3. QED
  BY <1>2, CallKeeps, Zenon

LEMMA NextKeeps ==
  ASSUME CInv, NEW c \in Calls, NextFile(c), UNCHANGED <<opts, src, group, settled, dst, pull, key>>,
         fails' \in 0 .. MaxFails, group = "run", Kind(c) # "tpc",
         NEW f, f = File(c), f \in settled /\ Trusted(f) => Whole(f)
  PROVE  CInv'
<1>t. TypeOK /\ calls \in Groups
  BY Zenon DEF CInv, TypeOK
<1>j. /\ job[c].i \in 1 .. Len(Walk(c)) /\ Len(Walk(c)) \in Nat /\ job[c] \in Job
      /\ f \in Files
  BY CallFacts, FileType, Zenon DEF CInv, CallInv, TypeOK
<1>0. /\ Walk(c)' = Walk(c) /\ Kind(c)' = Kind(c) /\ CallInv(c) /\ Stage(c)
      /\ DOMAIN Walk(c) = 1 .. Len(Walk(c))
  BY DEF CInv, CallInv, opts, Walk, Kind
<1>1. Holds' /\ OnlyMine(c)
  BY <1>t, SameHolds, Zenon
<1>2. MaxSize \in Nat /\ 0 \in 0 .. MaxSize /\ job[c].off \in 0 .. MaxSize /\ job[c].size \in 0 .. MaxSize
  BY <1>j, MaxSizeType DEF Job
<1>3. pull[c] = "none"
  BY <1>t, <1>j, <1>0, Zenon DEF Stage
<1>4. resume /\ Trusted(f) => Part(f)'
  BY <1>j, PartSame, Zenon DEF CInv, Resumable
<1>5. pull' \in [Calls -> {"none", "run", "ok", "err"}] /\ key' \subseteq Calls
  BY <1>t, ZenonT(60) DEF TypeOK
<1>6. (Whole(f)' <=> Whole(f))
  BY PartSame, Zenon
<1>7. CASE job[c].i = Len(Walk(c))
  <2>1. MovedTo(c, "ok")
    BY <1>t, <1>7, NextFileMoves, Zenon
  <2>2. TypeOK'
    BY <1>t, <1>j, <1>0, <1>1, <1>2, <1>5, <2>1, TypeKept, ZenonT(60) DEF MovedTo
  <2>3. Others(c) /\ job'[c].at = "ok" /\ job'[c].i = job[c].i
    BY <1>1, <2>1, Zenon DEF Others, MovedTo, Moved
  <2>4. Stage(c)'
    BY <1>3, <2>3, Zenon DEF Stage
  <2>5. f \in settled /\ Trusted(f) => Doing(c, f)'
    BY <1>j, <1>6, <2>3, Zenon DEF Doing
  <2>6. QED
    BY <1>4, <1>7, <2>2, <2>3, <2>4, <2>5, SameFile, Zenon
<1>8. CASE job[c].i # Len(Walk(c))
  <2>1. Moved(c, "open", job[c].i + 1, 0, 0) /\ job[c].i + 1 \in DOMAIN Walk(c)
    BY <1>t, <1>j, <1>8, NextFileMoves
  <2>2. TypeOK'
    BY <1>t, <1>1, <1>2, <1>5, <2>1, TypeKept, ZenonT(60)
  <2>3. Others(c) /\ job'[c].at = "open" /\ job'[c].i = job[c].i + 1
    BY <1>1, <2>1, Zenon DEF Others, Moved
  <2>4. Stage(c)'
    BY <1>0, <2>3, Zenon DEF Stage
  <2>5. ASSUME NEW k \in DOMAIN Walk(c)
        PROVE  Done(c, k)'
    <3> DEFINE g == Walk(c)[k]
    <3>1. (Trusted(g)' <=> Trusted(g)) /\ (Walk(c)[k])' = g /\ (Whole(g)' <=> Whole(g))
      BY <1>0, PartSame, Zenon
    <3>2. Done(c, k) /\ (k = job[c].i => g = f)
      BY <1>j, <1>0, ZenonT(60) DEF CallInv, File
    <3> HIDE DEF g
    <3>3. k < job'[c].i => k < job[c].i \/ k = job[c].i
      BY <1>j, <2>3
    <3>4. QED
      BY <1>3, <2>3, <3>1, <3>2, <3>3, Zenon DEF Done, Doing, g
  <2>6. CallInv(c)'
    BY <1>0, <2>4, <2>5, ZenonT(60) DEF CallInv
  <2>7. QED
    BY <1>4, <2>2, <2>3, <2>6, CallKeeps, Zenon
<1>9. QED
  BY <1>7, <1>8, Zenon

\* A call that only moves on, within its file.
LEMMA MoveKeeps ==
  ASSUME CInv, NEW c \in Calls, NEW f, f = File(c), UNCHANGED <<opts, src, group, settled, dst>>,
         NEW a \in {"queued", "start", "open", "copy", "sync", "verify", "source", "dest", "wait", "ok", "err"},
         MovedTo(c, a), a = "ok" => job[c].i = Len(Walk(c)),
         pull' \in [Calls -> {"none", "run", "ok", "err"}], key' \subseteq Calls, fails' \in 0 .. MaxFails,
         \A d \in Calls : d # c => pull'[d] = pull[d] /\ (d \in key' <=> d \in key),
         Stage(c)', f \in settled /\ Trusted(f) => Doing(c, f)'
  PROVE  CInv'
<1>0. /\ TypeOK /\ job[c].i \in DOMAIN Walk(c) /\ job[c] \in Job /\ f \in Files
  BY FileType, JobFields, Zenon DEF CInv
<1>1. Holds' /\ OnlyMine(c)
  BY <1>0, SameHolds, Zenon
<1>2. job[c].off \in 0 .. MaxSize /\ job[c].size \in 0 .. MaxSize
  BY <1>0, Zenon DEF Job
<1>3. TypeOK'
  BY <1>0, <1>1, <1>2, TypeKept, Zenon DEF MovedTo
<1>4. Others(c) /\ job'[c].at = a /\ job'[c].i = job[c].i
  BY <1>1, Zenon DEF Others, MovedTo, Moved
<1>5. resume /\ Trusted(f) => Part(f)'
  BY <1>0, PartSame, Zenon DEF CInv, Resumable
<1>6. QED
  BY <1>3, <1>4, <1>5, SameFile, ZenonT(60)


\* What a step of call c may use about c.
LEMMA CallContext ==
  ASSUME CInv, NEW c \in Calls, NEW f, f = File(c)
  PROVE  /\ TypeOK /\ calls \in Groups /\ Stage(c) /\ (f \in settled /\ Trusted(f) => Doing(c, f)) /\ f = Walk(c)[job[c].i]
         /\ f \in Files /\ dst[f] \in Seq(Chunks) /\ Len(dst[f]) \in Nat
         /\ src[f].size \in Nat /\ src[f].size <= MaxSize /\ MaxSize \in Nat
         /\ job[c] \in Job /\ job[c].i \in DOMAIN Walk(c)
         /\ job[c].off \in 0 .. MaxSize /\ job[c].size \in 0 .. MaxSize
         /\ pull \in [Calls -> {"none", "run", "ok", "err"}] /\ key \subseteq Calls /\ fails \in 0 .. MaxFails
         /\ resume /\ Trusted(f) => Part(f)
         /\ Active(c) => group = "run"
<1>1. /\ TypeOK /\ calls \in Groups /\ job[c] \in Job /\ job[c].i \in DOMAIN Walk(c) /\ f \in Files
      /\ src[f].size \in Nat /\ src[f].size <= MaxSize /\ MaxSize \in Nat
      /\ dst[f] \in Seq(Chunks) /\ Len(dst[f]) \in Nat
  BY FileType, MaxSizeType, Zenon DEF CInv, TypeOK
<1>2. Stage(c) /\ (f \in settled /\ Trusted(f) => Doing(c, f))
  BY <1>1, Zenon DEF CInv, CallInv, Done, File
<1>3. resume /\ Trusted(f) => Part(f)
  BY <1>1, Zenon DEF CInv, Resumable
<1>4. Active(c) => group = "run"
  BY <1>2, Zenon DEF Stage
<1>5. QED
  BY <1>1, <1>2, <1>3, <1>4, Zenon DEF TypeOK, Job, File

\* A step that changes no destination and keeps c at its file.
LEMMA SameParts ==
  ASSUME NEW c \in Calls, NEW f, f = File(c), UNCHANGED <<opts, src, dst, settled, group>>, job'[c].i = job[c].i
  PROVE  /\ (Part(f)' <=> Part(f)) /\ (Whole(f)' <=> Whole(f)) /\ (Trusted(f)' <=> Trusted(f))
         /\ File(c)' = f /\ (Walk(c)[job[c].i])' = f /\ Kind(c)' = Kind(c) /\ dst'[f] = dst[f]
  BY PartSame, Zenon DEF File, Walk, Kind, opts

LEMMA MayFailType ==
  ASSUME MayFail, fails \in 0 .. MaxFails
  PROVE  fails' \in 0 .. MaxFails
  BY CopyAssumption DEF MayFail

\* Go, Start, CopyEnd and Fail.
LEMMA PlainSteps ==
  ASSUME CInv, NEW c \in Calls, Go(c) \/ Start(c) \/ CopyEnd(c) \/ Fail(c)
  PROVE  CInv'
<1> SUFFICES ASSUME NEW f, f = File(c)
             PROVE  CInv'
  BY Zenon
<1>t. /\ TypeOK /\ calls \in Groups /\ pull \in [Calls -> {"none", "run", "ok", "err"}]
      /\ key \subseteq Calls /\ fails \in 0 .. MaxFails
  BY CallContext, Zenon
<1>j. /\ f \in Files /\ Len(dst[f]) \in Nat /\ src[f].size \in Nat /\ job[c] \in Job
      /\ job[c].size \in 0 .. MaxSize /\ MaxSize \in Nat
  BY CallContext, Zenon
<1>0. /\ Stage(c) /\ (f \in settled /\ Trusted(f) => Doing(c, f)) /\ f = Walk(c)[job[c].i]
      /\ Active(c) => group = "run"
  BY CallContext, ZenonT(60)
<1>1. UNCHANGED <<opts, src, dst, settled, group>>
  BY Zenon DEF Go, Start, CopyEnd, Fail, Frame
<1>2. ASSUME NEW a, MovedTo(c, a)
      PROVE  /\ job'[c].at = a /\ job'[c].i = job[c].i /\ job'[c].off = job[c].off
             /\ (Part(f)' <=> Part(f)) /\ (Whole(f)' <=> Whole(f)) /\ (Trusted(f)' <=> Trusted(f))
             /\ File(c)' = f /\ (Walk(c)[job[c].i])' = f /\ Kind(c)' = Kind(c) /\ dst'[f] = dst[f]
  BY <1>1, <1>2, SameParts, Zenon DEF MovedTo, Moved
<1>3. CASE Go(c)
  <2>1. MovedTo(c, "start") /\ UNCHANGED <<pull, key, fails>> /\ group = "run" /\ job[c].at = "queued"
    BY <1>t, <1>3, GotoMoves, ZenonT(60) DEF Go
  <2>2. Stage(c)'
    BY <1>0, <1>1, <1>2, <2>1 DEF Stage, Active
  <2>3. f \in settled /\ Trusted(f) => Doing(c, f)'
    BY <1>2, <2>1, <2>2 DEF Doing, Stage
  <2>4. QED
    BY <1>t, <1>j, <1>0, <1>1, <2>1, <2>2, <2>3, MoveKeeps, ZenonT(60)
<1>4. CASE Start(c)
  <2> DEFINE a == IF Kind(c) = "tpc" THEN "source" ELSE "open"
  <2>1. MovedTo(c, a) /\ UNCHANGED <<pull, key, fails>> /\ job[c].at = "start" /\ a \in {"source", "open"}
        /\ group = "run"
    BY <1>t, <1>0, <1>4, GotoMoves, Zenon DEF Start, Active
  <2>2. Stage(c)'
    BY <1>t, <1>0, <1>1, <1>2, <2>1, Zenon DEF Stage, Active
  <2>3. f \in settled /\ Trusted(f) => Doing(c, f)'
    BY <1>2, <2>1, <2>2 DEF Doing, Stage
  <2> HIDE DEF a
  <2>4. QED
    BY <1>t, <1>1, <2>1, <2>2, <2>3, MoveKeeps, ZenonT(60)
<1>5. CASE CopyEnd(c)
  <2>1. /\ MovedTo(c, "sync") /\ UNCHANGED <<pull, key, fails>> /\ job[c].at = "copy" /\ group = "run"
        /\ Kind(c) # "tpc" /\ job[c].off = Len(dst[f])
        /\ job[c].off >= (IF Kind(c) = "down" THEN job[c].size ELSE src[f].size)
    BY <1>t, <1>0, <1>5, GotoMoves, Zenon DEF CopyEnd, Active, Stage
  <2>2. Stage(c)'
    BY <1>0, <1>1, <1>2, <2>1 DEF Stage, Active
  <2>3. f \in settled /\ Trusted(f) => Whole(f)
    <3>1. f \in settled /\ Trusted(f) => Part(f) /\ job[c].size = src[f].size
      BY <1>0, <2>1, Zenon DEF Doing
    <3>2. f \in settled /\ Trusted(f) => Len(dst[f]) >= src[f].size
      BY <2>1, <3>1, Zenon
    <3>3. Part(f) => Len(dst[f]) <= src[f].size
      BY Zenon DEF Part
    <3>4. QED
      BY <1>j, <3>1, <3>2, <3>3 DEF Whole
  <2>4. f \in settled /\ Trusted(f) => Doing(c, f)'
    <3>1. job'[c].at = "sync" /\ Kind(c)' = Kind(c) /\ (Whole(f)' <=> Whole(f)) /\ pull' = pull
      BY <1>2, <2>1, Zenon
    <3>2. pull[c] = "none"
      BY <1>0, <2>1, Zenon DEF Stage
    <3>3. QED
      BY <2>1, <2>3, <3>1, Zenon DEF Doing
  <2>5. QED
    BY <1>t, <1>0, <1>1, <2>1, <2>2, <2>4, MoveKeeps, ZenonT(60)
<1>6. CASE Fail(c)
  <2>1. /\ MovedTo(c, "err") /\ group = "run"
        /\ key' = key \ {c} /\ pull' = [pull EXCEPT ![c] = "none"] /\ fails' \in 0 .. MaxFails
    BY <1>t, <1>0, <1>6, GotoMoves, MayFailType, ZenonT(60) DEF Fail
  <2>2. /\ pull' \in [Calls -> {"none", "run", "ok", "err"}] /\ key' \subseteq Calls /\ pull'[c] = "none"
        /\ \A d \in Calls : d # c => pull'[d] = pull[d] /\ (d \in key' <=> d \in key)
    BY <1>t, <2>1, Zenon
  <2>3. Stage(c)'
    BY <1>1, <1>2, <2>1, <2>2 DEF Stage
  <2>4. f \in settled /\ Trusted(f) => Doing(c, f)'
    <3>1. job'[c].at = "err" /\ pull'[c] = "none"
      BY <1>2, <2>1, <2>2, Zenon
    <3>2. QED
      BY <3>1, Zenon DEF Doing
  <2>5. QED
    BY <1>t, <1>j, <1>1, <2>1, <2>3, <2>4, MoveKeeps, ZenonT(60)
<1>7. QED
  BY <1>3, <1>4, <1>5, <1>6, Zenon

\* A step that leaves c in the copy loop.
LEMMA LoopKeeps ==
  ASSUME CInv, NEW c \in Calls, NEW f, f = File(c), NEW o \in 0 .. MaxSize, NEW z \in 0 .. MaxSize,
         Moved(c, "copy", job[c].i, o, z), Frame, UNCHANGED <<pull, key>>, fails' \in 0 .. MaxFails,
         job[c].at \in {"open", "copy"}, Holds', OnlyMine(c), o = Len(dst'[f]),
         f \in settled /\ Trusted(f) => Part(f)' /\ z = src[f].size,
         resume /\ Trusted(f) => Part(f)'
  PROVE  CInv'
<1>t. TypeOK /\ pull \in [Calls -> {"none", "run", "ok", "err"}] /\ key \subseteq Calls
  BY CallContext, Zenon
<1>j. job[c].i \in DOMAIN Walk(c)
  BY CallContext, Zenon DEF Active
<1>0. Stage(c) /\ group = "run"
  BY CallContext, Zenon DEF Active
<1>1. Kind(c) # "tpc" /\ pull[c] = "none"
  BY <1>0, Zenon DEF Stage
<1>2. UNCHANGED <<opts, src, group, settled>>
  BY Zenon DEF Frame
<1>3. TypeOK'
  BY <1>t, <1>j, <1>2, TypeKept, Zenon
<1>4. Others(c) /\ job'[c].at = "copy" /\ job'[c].i = job[c].i /\ job'[c].off = o /\ job'[c].size = z
  BY <1>2, Zenon DEF Others, Moved
<1>5. File(c)' = f /\ Kind(c)' = Kind(c) /\ group' = "run" /\ pull'[c] = "none" /\ src' = src
  BY <1>j, <1>0, <1>1, <1>2, <1>4, ZenonT(60) DEF File, Walk, Kind, opts
<1>6. Stage(c)'
  BY <1>1, <1>4, <1>5, Zenon DEF Stage
<1>7. f \in settled /\ Trusted(f) => Doing(c, f)'
  BY <1>4, <1>5, Zenon DEF Doing
<1>8. QED
  BY <1>3, <1>4, <1>6, <1>7, SameFile, Zenon

LEMMA OpenAtKeeps ==
  ASSUME CInv, NEW c \in Calls, NEW f, f = File(c), NEW o \in Nat, job[c].at = "open",
         OpenAt(c, o), Frame, UNCHANGED <<pull, key>>, fails' \in 0 .. MaxFails,
         o = 0 \/ (resume /\ o = Len(dst[f]) /\ o < src[f].size)
  PROVE  CInv'
<1>t. TypeOK
  BY CallContext, Zenon
<1>j. f \in Files /\ src[f].size \in Nat /\ src[f].size <= MaxSize /\ MaxSize \in Nat
  BY CallContext, Zenon
<1>0. /\ resume /\ Trusted(f) => Part(f)
  BY CallContext, Zenon
<1>1. Moved(c, "copy", job[c].i, o, src[f].size) /\ o \in 0 .. MaxSize /\ src[f].size \in 0 .. MaxSize
  BY <1>t, <1>j, <1>0, OpenAtMoves
<1>2. UNCHANGED <<opts, src>>
  BY ZenonT(60) DEF Frame
<1>3. CASE o = 0
  <2>1. Emptied(c)
    BY <1>3, Zenon DEF OpenAt, Emptied
  <2>2. Holds' /\ OnlyMine(c) /\ o = Len(dst'[f]) /\ Part(f)'
    BY <1>t, <1>0, <1>2, <1>3, <2>1, EmptiedEffect, Zenon
  <2>3. QED
    BY <1>1, <2>2, LoopKeeps, Zenon
<1>4. CASE o # 0
  <2>1. UNCHANGED dst
    BY <1>t, <1>4, Zenon DEF OpenAt, TypeOK
  <2>2. Holds' /\ OnlyMine(c) /\ o = Len(dst'[f])
    BY <1>t, <1>0, <1>4, <2>1, SameHolds, ZenonT(60)
  <2>3. resume /\ (Trusted(f) => Part(f)')
    BY <1>t, <1>j, <1>0, <1>2, <1>4, <2>1, PartSame, Zenon
  <2>4. QED
    BY <1>1, <2>2, <2>3, LoopKeeps, Zenon
<1>5. QED
  BY <1>3, <1>4, Zenon

LEMMA OpenKeeps ==
  ASSUME CInv, NEW c \in Calls, Open(c)
  PROVE  CInv'
<1> SUFFICES ASSUME NEW f, f = File(c)
             PROVE  CInv'
  BY SMTT(60)
<1>t. fails \in 0 .. MaxFails
  BY CallContext, Zenon
<1>j. f \in Files /\ Len(dst[f]) \in Nat /\ src[f].size \in Nat
  BY CallContext, Zenon
<1>0. /\ resume /\ Trusted(f) => Part(f)
      /\ job[c].at = "open" /\ Frame /\ UNCHANGED <<pull, key>> /\ group = "run" /\ Stage(c)
  BY CallContext, Zenon DEF Open, Active
<1>1. CASE OpenResumed(c)
  <2> DEFINE r == resumeOffsetSize(Len(dst[f]), src[f].size)
  <2>1. resume /\ UNCHANGED fails /\ IF r.complete THEN NextFile(c) /\ UNCHANGED dst ELSE OpenAt(c, r.offset)
    BY <1>1, Zenon DEF OpenResumed
  <2>2. CASE r.complete
    <3>1. Len(dst[f]) = src[f].size
      BY <2>2, Zenon DEF resumeOffsetSize
    <3>2. Trusted(f) => Whole(f)
      BY <1>0, <2>1, <3>1, Zenon DEF Whole
    <3>3. Kind(c) # "tpc"
      BY <1>0, Zenon DEF Stage
    <3>4. UNCHANGED <<opts, src, group, settled, dst, pull, key>> /\ fails' \in 0 .. MaxFails
      BY <1>t, <1>0, <2>1, <2>2, Zenon DEF Frame
    <3> HIDE DEF r
    <3>5. QED
      BY <1>j, <1>0, <2>1, <2>2, <3>2, <3>3, <3>4, NextKeeps, Zenon
  <2>3. CASE ~r.complete
    <3>1. r.offset = 0 \/ (r.offset = Len(dst[f]) /\ r.offset < src[f].size)
      BY Zenon DEF resumeOffsetSize
    <3>2. r.offset \in Nat
      BY <1>j, <3>1
    <3> HIDE DEF r
    <3>3. QED
      BY <1>t, <1>j, <1>0, <2>1, <2>3, <3>1, <3>2, OpenAtKeeps, Zenon
  <2>4. QED
    BY <2>2, <2>3, Zenon
<1>2. CASE OpenAfresh(c) \/ OpenUnknown(c)
  <2>1. OpenAt(c, 0) /\ fails' \in 0 .. MaxFails
    BY <1>t, <1>2, MayFailType, Zenon DEF OpenAfresh, OpenUnknown
  <2>2. QED
    BY <1>0, <2>1, OpenAtKeeps, Zenon
<1>3. QED
  BY <1>1, <1>2, Zenon DEF Open

LEMMA ChunkKeeps ==
  ASSUME CInv, NEW c \in Calls, CopyChunk(c)
  PROVE  CInv'
<1> SUFFICES ASSUME NEW f, f = File(c)
             PROVE  CInv'
  BY Zenon
<1>t. /\ TypeOK /\ fails \in 0 .. MaxFails /\ pull \in [Calls -> {"none", "run", "ok", "err"}]
      /\ key \subseteq Calls
  BY CallContext, Zenon
<1>j. /\ f \in Files /\ Len(dst[f]) \in Nat /\ src[f].size \in Nat /\ src[f].size <= MaxSize
      /\ MaxSize \in Nat /\ job[c] \in Job /\ job[c].size \in 0 .. MaxSize
      /\ job[c].off \in 0 .. MaxSize /\ job[c].i \in DOMAIN Walk(c)
  BY CallContext, Zenon
<1>0. /\ Stage(c)
      /\ resume /\ Trusted(f) => Part(f)
      /\ f \in settled /\ Trusted(f) => Doing(c, f)
  BY CallContext, Zenon
<1>1. /\ job[c].at = "copy" /\ job[c].off < src[f].size /\ Frame /\ UNCHANGED <<pull, key>> /\ group = "run"
      /\ Put(c, job[c].off)
  BY CallContext, Zenon DEF CopyChunk, Active
<1>2. job[c].off = Len(dst[f]) /\ Kind(c) # "tpc" /\ pull[c] = "none"
  BY <1>0, <1>1, Zenon DEF Stage
<1>3. Grown(c)
  <2>1. ~(job[c].off < Len(dst[File(c)])) /\ job[c].off + 1 = Len(dst[File(c)]) + 1
    BY <1>t, <1>2
  <2>2. QED
    BY <1>1, <2>1, ZenonT(60) DEF Put, Grown
<1>4. UNCHANGED <<opts, src, group, settled>>
  BY <1>1, ZenonT(60) DEF Frame
<1>5. /\ Holds' /\ OnlyMine(c) /\ Len(dst'[f]) = Len(dst[f]) + 1
      /\ Part(f) => Part(f)'
  BY <1>t, <1>1, <1>2, <1>3, <1>4, GrownEffect, Zenon
<1>6. /\ f \in settled /\ Trusted(f) => Part(f)' /\ job[c].size = src[f].size
      /\ resume /\ Trusted(f) => Part(f)'
  BY <1>0, <1>1, <1>5, Zenon DEF Doing
<1>7. CASE job' = [job EXCEPT ![c].off = @ + 1] /\ UNCHANGED fails
  <2>1. Moved(c, "copy", job[c].i, job[c].off + 1, job[c].size) /\ job[c].off + 1 \in 0 .. MaxSize
    <3>1. Moved(c, job[c].at, job[c].i, job[c].off + 1, job[c].size)
      BY <1>t, <1>7, ChunkMoves, ZenonT(60)
    <3>2. QED
      BY <1>j, <1>1, <3>1
  <2>2. QED
    BY <1>t, <1>j, <1>1, <1>2, <1>5, <1>6, <1>7, <2>1, LoopKeeps, ZenonT(60)
<1>8. CASE MayFail /\ Goto(c, "err")
  <2>1. MovedTo(c, "err") /\ fails' \in 0 .. MaxFails
    BY <1>t, <1>8, GotoMoves, MayFailType, Zenon
  <2>2. TypeOK'
    BY <1>t, <1>j, <1>0, <1>1, <1>4, <1>5, <2>1, TypeKept, ZenonT(60) DEF MovedTo
  <2>3. Others(c) /\ job'[c].at = "err" /\ job'[c].i = job[c].i
    BY <1>1, <1>4, <1>5, <2>1, Zenon DEF Others, MovedTo, Moved
  <2>4. Stage(c)' /\ Doing(c, f)'
    BY <1>1, <1>2, <1>4, <2>3, Zenon DEF Stage, Doing, Active
  <2>5. QED
    BY <1>6, <2>2, <2>3, <2>4, SameFile, Zenon
<1>9. QED
  BY <1>7, <1>8, Zenon DEF CopyChunk

\* Sync and verifyChecksum.
LEMMA EndKeeps ==
  ASSUME CInv, NEW c \in Calls, Sync(c) \/ verifyChecksum(c)
  PROVE  CInv'
<1> SUFFICES ASSUME NEW f, f = File(c)
             PROVE  CInv'
  BY SMTT(60)
<1>t. /\ TypeOK /\ fails \in 0 .. MaxFails /\ pull \in [Calls -> {"none", "run", "ok", "err"}]
      /\ key \subseteq Calls
  BY CallContext, Zenon
<1>j. f \in Files
  BY CallContext, Zenon
<1>0. /\ Stage(c)
      /\ f \in settled /\ Trusted(f) => Doing(c, f)
  BY CallContext, Zenon
<1>1. /\ UNCHANGED <<opts, src, group, settled, dst, pull, key>> /\ group = "run"
      /\ job[c].at \in {"sync", "verify"} /\ Kind(c) # "tpc" /\ fails' \in 0 .. MaxFails
  BY <1>t, <1>j, CallContext, MayFailType, Zenon DEF Sync, verifyChecksum, Frame, Active, Stage
<1>2. pull[c] = "none"
  BY <1>t, <1>j, <1>0, <1>1, ZenonT(60) DEF Stage
<1>3. f \in settled /\ Trusted(f) => Whole(f)
  BY <1>t, <1>0, <1>1, Zenon DEF Doing
<1>4. CASE NextFile(c)
  BY <1>1, <1>3, <1>4, NextKeeps, Zenon
<1>5. ASSUME NEW a \in {"verify", "err"}, Goto(c, a), a = "verify" => Kind(c) = "down"
      PROVE  CInv'
  <2>1. MovedTo(c, a) /\ job'[c].at = a /\ job'[c].i = job[c].i
    BY <1>t, <1>5, GotoMoves, Zenon DEF MovedTo, Moved
  <2>2. Kind(c)' = Kind(c) /\ (Whole(f)' <=> Whole(f)) /\ pull' = pull /\ group' = "run"
    BY <1>1, <2>1, SameParts, Zenon
  <2>3. Stage(c)'
    BY <1>2, <1>5, <2>1, <2>2, Zenon DEF Stage, Active
  <2>4. f \in settled /\ Trusted(f) => Doing(c, f)'
    BY <1>2, <1>3, <2>1, <2>2, Zenon DEF Doing
  <2>5. QED
    BY <1>t, <1>1, <1>5, <2>1, <2>3, <2>4, MoveKeeps, ZenonT(60)
<1>6. NextFile(c) \/ Goto(c, "err") \/ (Goto(c, "verify") /\ Kind(c) = "down")
  BY Zenon DEF Sync, verifyChecksum
<1>7. QED
  BY <1>4, <1>5, <1>6, Zenon

\* TpcSource, TpcStart and TpcWait.
LEMMA TpcMoves ==
  ASSUME CInv, NEW c \in Calls, TpcSource(c) \/ TpcStart(c) \/ TpcWait(c)
  PROVE  CInv'
<1> SUFFICES ASSUME NEW f, f = File(c)
             PROVE  CInv'
  BY SMTT(60)
<1>t. /\ TypeOK /\ calls \in Groups /\ fails \in 0 .. MaxFails
      /\ pull \in [Calls -> {"none", "run", "ok", "err"}] /\ key \subseteq Calls
  BY CallContext, Zenon
<1>j. f \in Files /\ src[f].size \in Nat /\ job[c].i \in DOMAIN Walk(c)
  BY CallContext, Zenon
<1>0. /\ Stage(c)
      /\ f \in settled /\ Trusted(f) => Doing(c, f)
  BY CallContext, Zenon
<1>1. /\ UNCHANGED <<opts, src, group, settled, dst, fails>> /\ group = "run" /\ Kind(c) = "tpc"
  BY CallContext, ZenonT(60) DEF TpcSource, TpcStart, TpcWait, Frame, Active, Stage
<1>2. ASSUME NEW a, Goto(c, a)
      PROVE  /\ MovedTo(c, a) /\ job'[c].at = a /\ job'[c].i = job[c].i
             /\ Kind(c)' = Kind(c) /\ (Part(f)' <=> Part(f)) /\ (Whole(f)' <=> Whole(f)) /\ group' = "run"
  <2>1. MovedTo(c, a) /\ job'[c].at = a /\ job'[c].i = job[c].i
    BY <1>t, <1>j, <1>2, GotoMoves, ZenonT(60) DEF MovedTo, Moved
  <2>2. QED
    BY <1>1, <2>1, SameParts, ZenonT(60)
<1>3. CASE TpcSource(c)
  <2>1. Goto(c, "dest") /\ key' = key \cup {c} /\ UNCHANGED pull /\ job[c].at = "source" /\ pull[c] = "none"
    BY <1>j, <1>0, <1>3, ZenonT(60) DEF TpcSource, Stage
  <2>2. Stage(c)' /\ Doing(c, f)'
    BY <1>1, <1>2, <2>1 DEF Stage, Doing, Active
  <2>3. key' \subseteq Calls /\ \A d \in Calls : d # c => (d \in key' <=> d \in key)
    BY <1>t, <1>j, <1>0, <2>1, ZenonT(60)
  <2>4. QED
    BY <1>t, <1>1, <1>2, <2>1, <2>2, MoveKeeps, ZenonT(60)
<1>4. CASE TpcStart(c)
  <2>1. /\ Goto(c, "wait") /\ pull' = [pull EXCEPT ![c] = "run"] /\ UNCHANGED key /\ job[c].at = "sync"
        /\ c \in key
    BY <1>j, <1>0, <1>4, ZenonT(60) DEF TpcStart, Stage
  <2>2. pull' \in [Calls -> {"none", "run", "ok", "err"}] /\ pull'[c] = "run"
        /\ \A d \in Calls : d # c => pull'[d] = pull[d]
    BY <1>t, <1>j, <2>1, Zenon
  <2>3. Stage(c)'
    BY <1>1, <1>2, <2>1 DEF Stage, Active
  <2>4. f \in settled /\ Trusted(f) => Part(f)
    <3>1. f \in settled /\ Trusted(f) => dst[f] = <<>>
      BY <1>0, <1>1, <2>1, Zenon DEF Doing
    <3>2. QED
      BY <1>j, <3>1 DEF Part
  <2>5. f \in settled /\ Trusted(f) => Doing(c, f)'
    BY <1>2, <2>1, <2>2, <2>4 DEF Doing
  <2>6. QED
    BY <1>t, <1>1, <1>2, <2>1, <2>2, <2>3, <2>5, MoveKeeps, ZenonT(60)
<1>5. CASE TpcWait(c)
  <2>1. /\ Goto(c, pull[c]) /\ pull' = [pull EXCEPT ![c] = "none"] /\ key' = key \ {c}
        /\ job[c].at = "wait" /\ pull[c] \in {"ok", "err"}
    BY <1>5, Zenon DEF TpcWait
  <2>2. /\ pull' \in [Calls -> {"none", "run", "ok", "err"}] /\ pull'[c] = "none" /\ key' \subseteq Calls
        /\ \A d \in Calls : d # c => pull'[d] = pull[d] /\ (d \in key' <=> d \in key)
    BY <1>t, <2>1, Zenon
  <2>3. Stage(c)'
    BY <1>2, <2>1, <2>2, Zenon DEF Stage
  <2>4. f \in settled /\ Trusted(f) => (pull[c] = "ok" => Whole(f))
    BY <1>j, <1>0, Zenon DEF Doing
  <2>5. f \in settled /\ Trusted(f) => Doing(c, f)'
    BY <1>2, <2>1, <2>4 DEF Doing
  <2>6. job[c].i = Len(Walk(c))
    <3>1. DOMAIN Walk(c) = 1 .. Len(Walk(c)) /\ Len(Walk(c)) = 1
      BY <1>t, <1>1, CallFacts, Zenon
    <3>2. QED
      BY <1>j, <1>0, <3>1
  <2>7. QED
    BY <1>t, <1>j, <1>0, <1>1, <1>2, <2>1, <2>2, <2>3, <2>5, <2>6, MoveKeeps, ZenonT(60)
<1>6. QED
  BY <1>3, <1>4, <1>5, Zenon

LEMMA TpcDestKeeps ==
  ASSUME CInv, NEW c \in Calls, TpcDest(c)
  PROVE  CInv'
<1> SUFFICES ASSUME NEW f, f = File(c)
             PROVE  CInv'
  BY Zenon
<1>t. /\ TypeOK /\ fails \in 0 .. MaxFails /\ pull \in [Calls -> {"none", "run", "ok", "err"}]
      /\ key \subseteq Calls
  BY CallContext, Zenon
<1>j. /\ job[c].i \in DOMAIN Walk(c) /\ job[c].size \in 0 .. MaxSize
      /\ job[c].off \in 0 .. MaxSize
  BY CallContext, Zenon
<1>0. Stage(c)
  BY CallContext, Zenon
<1>1. /\ UNCHANGED <<opts, src, group, settled, pull, key, fails>> /\ group = "run" /\ Kind(c) = "tpc"
      /\ c \in key /\ pull[c] = "none" /\ Emptied(c)
  BY CallContext, Zenon DEF TpcDest, Frame, Active, Stage, Emptied
<1>2. Holds' /\ OnlyMine(c) /\ dst'[f] = <<>> /\ Part(f)'
  BY <1>t, <1>1, EmptiedEffect, ZenonT(60)
<1>3. MovedTo(c, "sync")
  BY <1>t, GotoMoves, Zenon DEF TpcDest
<1>4. TypeOK'
  BY <1>t, <1>j, <1>1, <1>2, <1>3, TypeKept, ZenonT(60) DEF MovedTo
<1>5. Others(c) /\ job'[c].at = "sync" /\ job'[c].i = job[c].i
  BY <1>1, <1>2, <1>3, ZenonT(60) DEF Others, MovedTo, Moved
<1>6. Kind(c)' = "tpc"
  BY <1>1, Zenon DEF Kind, opts
<1>7. Stage(c)' /\ Doing(c, f)'
  BY <1>1, <1>2, <1>5, <1>6, ZenonT(60) DEF Stage, Doing
<1>8. QED
  BY <1>2, <1>4, <1>5, <1>7, SameFile, Zenon

LEMMA PullKeeps ==
  ASSUME CInv, NEW c \in Calls, Pull(c)
  PROVE  CInv'
<1> SUFFICES ASSUME NEW f, f = File(c)
             PROVE  CInv'
  BY Zenon
<1>t. /\ TypeOK /\ fails \in 0 .. MaxFails /\ pull \in [Calls -> {"none", "run", "ok", "err"}]
      /\ key \subseteq Calls
  BY CallContext, Zenon
<1>j. /\ f \in Files /\ Len(dst[f]) \in Nat /\ src[f].size \in Nat /\ job[c] \in Job
      /\ job[c].i \in DOMAIN Walk(c) /\ job[c].size \in 0 .. MaxSize
      /\ job[c].off \in 0 .. MaxSize
  BY CallContext, Zenon
<1>0. /\ Stage(c)
      /\ f \in settled /\ Trusted(f) => Doing(c, f)
      /\ resume /\ Trusted(f) => Part(f)
  BY CallContext, Zenon
<1>1. pull[c] = "run" /\ job[c].at = "wait" /\ Kind(c) = "tpc" /\ c \in key
  BY <1>0, Zenon DEF Pull, Stage
<1>2. UNCHANGED <<opts, src, group, settled, job, key>> /\ group = "run"
  BY <1>1, CallContext, Zenon DEF Pull, Frame, Active
<1>3. MovedTo(c, "wait")
  <2>1. JobAt("wait", job[c].i, job[c].off, job[c].size) = job[c]
    BY <1>j, <1>1, Zenon DEF Job, JobAt
  <2>2. job' = [job EXCEPT ![c] = JobAt("wait", job[c].i, job[c].off, job[c].size)]
    BY <1>t, <1>2, <2>1, JobFields, Zenon
  <2>3. QED
    BY <1>t, <2>2, Moves, ZenonT(60) DEF MovedTo
<1>4. f \in settled /\ Trusted(f) => Part(f)
  BY <1>0, <1>1, ZenonT(60) DEF Doing
<1>5. Kind(c)' = "tpc" /\ job'[c].at = "wait" /\ job'[c].i = job[c].i
  BY <1>1, <1>2, Zenon DEF Kind, opts
<1>6. CASE /\ Len(dst[f]) < src[f].size /\ UNCHANGED <<pull, fails>>
           /\ dst' = [dst EXCEPT ![f] = Append(@, Chunk(f, Len(@) + 1))]
  <2>1. Grown(c)
    BY <1>6, ZenonT(60) DEF Grown
  <2>2. Holds' /\ OnlyMine(c) /\ (Part(f) => Part(f)')
    BY <1>t, <1>2, <1>6, <2>1, GrownEffect, ZenonT(60)
  <2>3. TypeOK'
    BY <1>t, <1>j, <1>0, <1>2, <1>3, <1>6, <2>2, TypeKept, ZenonT(60) DEF MovedTo
  <2>4. Others(c)
    BY <1>2, <1>6, <2>2, ZenonT(60) DEF Others
  <2>5. Stage(c)'
    BY <1>1, <1>2, <1>5, <1>6, Zenon DEF Stage, Active
  <2>6. f \in settled /\ Trusted(f) => Doing(c, f)'
    BY <1>1, <1>4, <1>5, <1>6, <2>2, Zenon DEF Doing
  <2>7. QED
    BY <1>0, <1>5, <2>2, <2>3, <2>4, <2>5, <2>6, SameFile, ZenonT(60)
<1>7. ASSUME NEW p \in {"ok", "err"}, pull' = [pull EXCEPT ![c] = p], UNCHANGED dst, fails' \in 0 .. MaxFails,
             p = "ok" => Len(dst[f]) >= src[f].size
      PROVE  CInv'
  <2>1. /\ pull' \in [Calls -> {"none", "run", "ok", "err"}] /\ pull'[c] = p
        /\ \A d \in Calls : d # c => pull'[d] = pull[d]
    BY <1>t, <1>7, Zenon
  <2>2. (Part(f)' <=> Part(f)) /\ (Whole(f)' <=> Whole(f))
    BY <1>2, <1>7, PartSame, ZenonT(60)
  <2>3. Stage(c)'
    BY <1>1, <1>2, <1>5, <1>7, <2>1, ZenonT(60) DEF Stage
  <2>4. p = "ok" /\ f \in settled /\ Trusted(f) => Whole(f)
    BY <1>j, <1>4, <1>7 DEF Part, Whole
  <2>5. f \in settled /\ Trusted(f) => Doing(c, f)'
    BY <1>4, <1>5, <2>1, <2>2, <2>4, Zenon DEF Doing
  <2>6. QED
    BY <1>t, <1>0, <1>2, <1>3, <1>7, <2>1, <2>3, <2>5, MoveKeeps, ZenonT(60)
<1>8. QED
  BY <1>t, <1>6, <1>7, MayFailType, ZenonT(60) DEF Pull

-----------------------------------------------------------------------------
(* The steps of the group, of the process and of whoever replaces sources. *)

LEMMA BeginKeeps ==
  ASSUME CInv, Begin
  PROVE  CInv'
<1>0. /\ TypeOK /\ UNCHANGED <<opts, src, dst, pull, key, fails>> /\ group' = "run" /\ settled' = Copied
      /\ calls \in Groups /\ Calls' = Calls /\ Copied' = Copied /\ group # "run"
      /\ \A c \in Calls : Walk(c)' = Walk(c) /\ Kind(c)' = Kind(c)
  BY Zenon DEF CInv, TypeOK, Begin, opts, Calls, Copied, Walk, Kind
<1>1. \A c \in Calls : job'[c].at = "queued" /\ job'[c].i = 1
  BY Zenon DEF Begin, Queued, JobAt
<1>2. TypeOK'
  <2>1. Queued \in Job
    BY MaxSizeType DEF Queued, JobAt, Job
  <2>2. job' \in [Calls -> Job]
    BY <2>1, Zenon DEF Begin
  <2>3. \A c \in Calls : job'[c].i \in DOMAIN Walk(c)
    BY <1>0, <1>1, CallFacts
  <2>4. Job' = Job
    BY Zenon
  <2>5. QED
    BY <1>0, <2>2, <2>3, <2>4, Zenon DEF TypeOK, opts
<1>3. Resumable'
  <2>1. resume' = resume /\ \A f \in Files : (Part(f)' <=> Part(f)) /\ (Trusted(f)' <=> Trusted(f))
    BY <1>0, PartSame, ZenonT(60) DEF opts
  <2>2. QED
    BY <2>1, Zenon DEF CInv, Resumable
<1>4. ASSUME NEW c \in Calls
      PROVE  CallInv(c)'
  <2>1. pull'[c] = "none"
    <3>1. Stage(c)
      BY ZenonT(60) DEF CInv, CallInv
    <3>2. QED
      BY <1>0, <3>1, Zenon DEF Stage, Active
  <2>2. Stage(c)'
    BY <1>0, <1>1, <2>1, Zenon DEF Stage
  <2>3. ASSUME NEW k \in DOMAIN Walk(c)
        PROVE  Done(c, k)'
    <3>1. ~(k < job'[c].i) /\ job'[c].at = "queued"
      BY <1>0, <1>1, CallFacts
    <3>2. QED
      BY <2>1, <3>1, Zenon DEF Done, Doing
  <2>4. QED
    BY <1>0, <2>2, <2>3, Zenon DEF CallInv
<1>5. QED
  BY <1>0, <1>2, <1>3, <1>4, Zenon DEF CInv

\* Wait and Die: the calls stay as they are, or they all fail.
LEMMA OverKeeps ==
  ASSUME CInv, Wait \/ Die
  PROVE  CInv'
<1>0. /\ TypeOK /\ UNCHANGED <<opts, src, dst, settled>> /\ calls \in Groups /\ Calls' = Calls
      /\ Copied' = Copied /\ \A c \in Calls : Walk(c)' = Walk(c) /\ Kind(c)' = Kind(c)
  BY DEF CInv, TypeOK, Wait, Die, opts, Calls, Copied, Walk, Kind
<1>1. Resumable'
  <2>1. resume' = resume /\ \A f \in Files : (Part(f)' <=> Part(f)) /\ (Trusted(f)' <=> Trusted(f))
    BY <1>0, PartSame, Zenon DEF opts
  <2>2. QED
    BY <2>1, Zenon DEF CInv, Resumable
<1>2. Job' = Job
  BY ZenonT(60) DEF Job
<1>3. ASSUME NEW c \in Calls, NEW k \in DOMAIN Walk(c)
      PROVE  /\ (Walk(c)[k])' = Walk(c)[k] /\ (Whole(Walk(c)[k])' <=> Whole(Walk(c)[k]))
             /\ (Part(Walk(c)[k])' <=> Part(Walk(c)[k])) /\ (Trusted(Walk(c)[k])' <=> Trusted(Walk(c)[k]))
  <2> DEFINE g == Walk(c)[k]
  <2>1. (Whole(g)' <=> Whole(g)) /\ (Part(g)' <=> Part(g)) /\ (Trusted(g)' <=> Trusted(g))
    BY <1>0, PartSame, Zenon
  <2>2. QED
    BY <1>0, <2>1, Zenon
<1>4. CASE Wait
  <2>0. /\ UNCHANGED <<job, pull, key, fails>> /\ group' \in {"ok", "err"}
        /\ \A c \in Calls : job[c].at \in {"ok", "err"} /\ (group' = "ok" => job[c].at # "err")
    BY <1>4, ZenonT(60) DEF Wait
  <2>1. TypeOK'
    BY <1>0, <2>0, Zenon DEF TypeOK, opts
  <2>2. ASSUME NEW c \in Calls
        PROVE  CallInv(c)'
    <3>1. CallInv(c) /\ Stage(c)
      BY Zenon DEF CInv, CallInv
    <3>2. Stage(c)'
      BY <2>0, <3>1, Zenon DEF Stage, Active
    <3>3. ASSUME NEW k \in DOMAIN Walk(c)
          PROVE  Done(c, k)'
      <4>1. Done(c, k)
        BY <3>1, Zenon DEF CallInv
      <4>2. QED
        BY <1>0, <1>3, <2>0, <4>1, Zenon DEF Done, Doing
    <3>4. QED
      BY <1>0, <3>2, <3>3, Zenon DEF CallInv
  <2>3. QED
    BY <1>0, <1>1, <2>1, <2>2, Zenon DEF CInv
<1>5. CASE Die
  <2>0. /\ group' = "err" /\ key' = {} /\ pull' = [c \in Calls |-> "none"]
        /\ job' = [c \in Calls |-> [job[c] EXCEPT !.at = "err"]]
    BY <1>5, Zenon DEF Die
  <2>1. ASSUME NEW c \in Calls
        PROVE  job'[c] \in Job /\ job'[c].at = "err" /\ job'[c].i = job[c].i
    <3>1. job[c] \in Job
      BY <1>0, JobFields, Zenon
    <3>2. QED
      BY <2>0, <3>1, Zenon DEF Job
  <2>2. TypeOK'
    <3>1. job' \in [Calls -> Job] /\ \A c \in Calls : job'[c].i \in DOMAIN Walk(c)
      BY <1>0, <2>0, <2>1, FileType, Zenon
    <3>2. fails' \in 0 .. MaxFails
      BY <1>0, <1>5, MayFailType, Zenon DEF Die, TypeOK
    <3>3. QED
      BY <1>0, <2>0, <3>1, <3>2, Zenon DEF TypeOK, opts
  <2>3. ASSUME NEW c \in Calls
        PROVE  CallInv(c)'
    <3>1. job'[c].at = "err" /\ job'[c].i = job[c].i /\ pull'[c] = "none" /\ CallInv(c)
      BY <2>0, <2>1, Zenon DEF CInv
    <3>2. Stage(c)'
      BY <2>0, <3>1, Zenon DEF Stage, Active
    <3>3. ASSUME NEW k \in DOMAIN Walk(c)
          PROVE  Done(c, k)'
      <4>1. Done(c, k)
        BY <3>1, ZenonT(60) DEF CallInv
      <4>2. QED
        BY <1>0, <1>3, <3>1, <4>1, Zenon DEF Done, Doing
    <3>4. QED
      BY <1>0, <3>2, <3>3, Zenon DEF CallInv
  <2>4. QED
    BY <1>0, <1>1, <2>2, <2>3, Zenon DEF CInv
<1>6. QED
  BY <1>4, <1>5, Zenon

LEMMA ReplaceKeeps ==
  ASSUME CInv, NEW f \in Files, Replace(f)
  PROVE  CInv'
<1>0. /\ TypeOK /\ UNCHANGED <<opts, dst, group, job, pull, key, fails>> /\ settled' = settled \ {f}
      /\ calls \in Groups /\ Calls' = Calls /\ Copied' = Copied /\ Job' = Job
      /\ \A c \in Calls : Walk(c)' = Walk(c) /\ Kind(c)' = Kind(c) /\ File(c)' = File(c)
  BY DEF CInv, TypeOK, Replace, opts, Calls, Copied, Walk, Kind, File, Job
<1>1. PICK n \in Sizes : src' = [src EXCEPT ![f] = [ver |-> @.ver + 1, size |-> n]]
  BY ZenonT(60) DEF Replace
<1>2. src \in [Files -> [ver : Versions, size : Sizes]] /\ src[f].ver + 1 \in Versions /\ src[f].ver + 1 # 0
  BY <1>0, CopyAssumption DEF Replace, TypeOK, Versions
<1>3. /\ src' \in [Files -> [ver : Versions, size : Sizes]] /\ src'[f].ver # 0
      /\ \A e \in Files : e # f => src'[e] = src[e]
  BY <1>1, <1>2, Zenon
<1>4. TypeOK'
  BY <1>0, <1>3, FixedTypes, ZenonT(60) DEF TypeOK, opts
<1>5. ASSUME NEW e \in Files, e # f
      PROVE  (Part(e)' <=> Part(e)) /\ (Whole(e)' <=> Whole(e)) /\ (Trusted(e)' <=> Trusted(e)) /\ src'[e] = src[e]
  BY <1>0, <1>3, <1>5, Zenon DEF Part, Whole, Trusted, Chunk, opts
<1>6. Resumable'
  <2>1. resume' = resume /\ (resume => ~Trusted(f)')
    BY <1>0, <1>3, ZenonT(60) DEF Trusted, opts
  <2>2. QED
    BY <1>5, <2>1, Zenon DEF CInv, Resumable
<1>7. ASSUME NEW c \in Calls
      PROVE  CallInv(c)'
  <2>0. CallInv(c) /\ Stage(c)
    BY Zenon DEF CInv, CallInv
  <2>1. Stage(c)'
    BY <1>0, <2>0, Zenon DEF Stage, Active
  <2>2. ASSUME NEW k \in DOMAIN Walk(c)
        PROVE  Done(c, k)'
    <3> DEFINE g == Walk(c)[k]
    <3>1. g \in Files /\ (Walk(c)[k])' = g
      BY <1>0, CallFacts
    <3>2. Done(c, k)
      BY <2>0, Zenon DEF CallInv
    <3>3. CASE g = f
      BY <1>0, <3>3, Zenon DEF Done
    <3>4. CASE g # f
      <4>1. (Part(g)' <=> Part(g)) /\ (Whole(g)' <=> Whole(g)) /\ (Trusted(g)' <=> Trusted(g)) /\ src'[g] = src[g]
        BY <1>5, <3>1, <3>4, Zenon
      <4>2. g \in settled' <=> g \in settled
        BY <1>0, <3>4, ZenonT(60)
      <4> HIDE DEF g
      <4>3. QED
        BY <1>0, <3>2, <4>1, <4>2, Zenon DEF Done, Doing, g
    <3>5. QED
      BY <3>3, <3>4, Zenon
  <2>3. QED
    BY <1>0, <2>1, <2>2, Zenon DEF CallInv
<1>8. QED
  BY <1>0, <1>4, <1>6, <1>7, Zenon DEF CInv

LEMMA CopyInit ==
  ASSUME Init
  PROVE  CInv
<1>0. /\ calls \in Groups /\ resume \in ResumeModes /\ src \in [Files -> [ver : {0}, size : Sizes]]
      /\ group = "idle" /\ job = [c \in Calls |-> Queued] /\ pull = [c \in Calls |-> "none"]
      /\ key = {} /\ settled = {} /\ fails = 0
  BY Zenon DEF Init
<1>1. PICK n \in [Files -> 0 .. MaxSize] :
        /\ \A f \in Files : n[f] <= src[f].size
        /\ dst = [f \in Files |-> SubSeq(Content(f), 1, n[f])]
  BY ZenonT(60) DEF Init
<1>2. ASSUME NEW f \in Files
      PROVE  dst[f] \in Seq(Chunks) /\ Len(dst[f]) <= MaxSize /\ Part(f)
  <2>1. /\ src[f].ver = 0 /\ 0 \in Versions /\ src[f].size \in Nat /\ src[f].size <= MaxSize /\ MaxSize \in Nat
        /\ n[f] \in Nat /\ n[f] <= src[f].size
    <3>1. src[f].ver = 0 /\ src[f].size \in Sizes
      BY <1>0, Zenon
    <3>2. 0 \in Versions
      BY CopyAssumption DEF Versions
    <3>3. n[f] \in 0 .. MaxSize /\ n[f] <= src[f].size
      BY <1>1, Zenon
    <3>4. src[f].size \in Nat /\ src[f].size <= MaxSize /\ MaxSize \in Nat
      BY <3>1, MaxSizeType, Zenon
    <3>5. QED
      BY <3>1, <3>2, <3>3, <3>4
  <2>2. \A i \in 1 .. src[f].size : Chunk(f, i) \in Chunks
    BY <2>1 DEF Chunk, Chunks
  <2>3. Content(f) \in Seq(Chunks) /\ Len(Content(f)) = src[f].size
    <3>1. Content(f) \in [1 .. src[f].size -> Chunks]
      BY <2>2, Zenon DEF Content
    <3> HIDE DEF Content
    <3>2. QED
      BY <2>1, <3>1
  <2>4. \A i \in 1 .. src[f].size : Content(f)[i] = Chunk(f, i)
    BY Zenon DEF Content
  <2>5. dst[f] = SubSeq(Content(f), 1, n[f])
    BY <1>1, ZenonT(60)
  <2>6. dst[f] \in Seq(Chunks) /\ Len(dst[f]) = n[f] /\ \A i \in 1 .. n[f] : dst[f][i] = Content(f)[i]
    BY <2>1, <2>3, <2>5
  <2>7. QED
    BY <2>1, <2>4, <2>6 DEF Part
<1>3. \A c \in Calls : job[c].at = "queued" /\ job[c].i = 1 /\ pull[c] = "none"
  BY <1>0, Zenon DEF Queued, JobAt
<1>4. TypeOK
  <2>1. Queued \in Job
    BY MaxSizeType DEF Queued, JobAt, Job
  <2>2. job \in [Calls -> Job]
    BY <1>0, <2>1, Zenon
  <2>3. \A c \in Calls : job[c].i \in DOMAIN Walk(c)
    BY <1>0, <1>3, CallFacts
  <2>4. dst \in [Files -> Seq(Chunks)] /\ \A f \in Files : Len(dst[f]) <= MaxSize
    BY <1>1, <1>2, Zenon
  <2>5. src \in [Files -> [ver : Versions, size : Sizes]] /\ fails \in 0 .. MaxFails
    BY <1>0, CopyAssumption DEF Versions
  <2>6. QED
    BY <1>0, <2>2, <2>3, <2>4, <2>5, Zenon DEF TypeOK
<1>5. \A c \in Calls : CallInv(c)
  BY <1>0, <1>3, Zenon DEF CallInv, Stage, Done, Active
<1>6. QED
  BY <1>2, <1>4, <1>5, Zenon DEF CInv, Resumable

LEMMA CopyStep ==
  ASSUME CInv, [Next]_vars
  PROVE  CInv'
<1>1. ASSUME NEW c \in Calls, CallStep(c) \/ Fail(c)
      PROVE  CInv'
  BY <1>1, PlainSteps, OpenKeeps, ChunkKeeps, EndKeeps, TpcMoves, TpcDestKeeps, PullKeeps,
     SMTT(60) DEF CallStep
<1>2. CASE UNCHANGED vars
  <2>0. UNCHANGED <<calls, resume, src, dst, group, job, pull, key, settled, fails>>
    BY <1>2, Zenon DEF vars, opts
  <2>1. TypeOK' <=> TypeOK
    BY <2>0 DEF TypeOK, Calls, Walk, Copied, Chunks, Job
  <2>2. Resumable' <=> Resumable
    BY <2>0, Zenon DEF Resumable, Trusted, Part, Chunk
  <2>3. Calls' = Calls
    BY <2>0, Zenon DEF Calls
  <2>4. ASSUME NEW c \in Calls
        PROVE  CallInv(c)'
    <3>1. Stage(c) /\ \A k \in DOMAIN Walk(c) : Done(c, k)
      BY Zenon DEF CInv, CallInv
    <3>2. Stage(c)'
      BY <2>0, <3>1, Zenon DEF Stage, Active, Kind, File, Walk
    <3>3. ASSUME NEW k \in DOMAIN Walk(c)
          PROVE  Done(c, k)'
      <4> DEFINE g == Walk(c)[k]
      <4>1. /\ (Part(g)' <=> Part(g)) /\ (Whole(g)' <=> Whole(g)) /\ (Trusted(g)' <=> Trusted(g))
            /\ (Walk(c)[k])' = g /\ Kind(c)' = Kind(c)
        BY <2>0, PartSame, Zenon DEF opts, Walk, Kind
      <4> HIDE DEF g
      <4>2. QED
        BY <2>0, <3>1, <4>1, Zenon DEF Done, Doing, g
    <3>4. Walk(c)' = Walk(c)
      BY <2>0, Zenon DEF Walk
    <3>5. QED
      BY <3>2, <3>3, <3>4, Zenon DEF CallInv
  <2>5. QED
    BY <2>1, <2>2, <2>3, <2>4, Zenon DEF CInv
<1>3. QED
  BY <1>1, <1>2, BeginKeeps, OverKeeps, ReplaceKeeps, Zenon DEF Next, Progress

-----------------------------------------------------------------------------
\* Type correctness of the copies: in particular a destination never grows past the largest
\* source, and no call runs past the end of its walk.
THEOREM TypeCorrect == Spec => []TypeOK
<1>1. CInv => TypeOK
  BY Zenon DEF CInv
<1>2. QED
  BY <1>1, CopyInit, CopyStep, PTL DEF Spec

\* TPC: the handle at the source server, and with it the key, outlives every pull.
THEOREM KeyOutlivesPull == Spec => []KeyWhilePulling
<1>1. CInv => KeyWhilePulling
  BY ZenonT(60) DEF CInv, CallInv, Stage, KeyWhilePulling
<1>2. QED
  BY <1>1, CopyInit, CopyStep, PTL DEF Spec

LEMMA WholeIsContent ==
  ASSUME TypeOK, NEW f \in Files, Whole(f)
  PROVE  dst[f] = Content(f)
<1>1. dst[f] \in Seq(Chunks) /\ Len(dst[f]) = src[f].size
  BY Zenon DEF TypeOK, Whole
<1>2. \A i \in 1 .. src[f].size : dst[f][i] = Chunk(f, i)
  BY <1>1, Zenon DEF Whole, Part
<1>3. dst[f] = [i \in 1 .. Len(dst[f]) |-> dst[f][i]]
  BY <1>1
<1>4. QED
  BY <1>1, <1>2 DEF Content

(***************************************************************************)
(* A group of copies that returns without an error has copied its files,   *)
(* however often it failed or its process died before, except those whose  *)
(* source was replaced while it ran and, if it resumes, those whose source *)
(* was ever replaced.                                                      *)
(***************************************************************************)
THEOREM CopiesAreRight ==
  Spec => [](group = "ok" => \A f \in settled : Trusted(f) => dst[f] = Content(f))
<1>1. CInv => (group = "ok" => \A f \in settled : Trusted(f) => dst[f] = Content(f))
  <2> SUFFICES ASSUME CInv, group = "ok", NEW f \in settled, Trusted(f)
               PROVE  dst[f] = Content(f)
    BY Zenon
  <2>1. TypeOK /\ f \in Copied
    BY Zenon DEF CInv, TypeOK
  <2>2. PICK c \in Calls : \E k \in DOMAIN Walk(c) : f = Walk(c)[k]
    BY <2>1, ZenonT(60) DEF Copied, Range
  <2> PICK k \in DOMAIN Walk(c) : f = Walk(c)[k]
    BY <2>2, ZenonT(60)
  <2>3. f \in Files
    BY <2>1, CallFacts DEF TypeOK
  <2>4. job[c].at = "ok" /\ Done(c, k)
    BY Zenon DEF CInv, CallInv, Stage
  <2>5. Whole(f)
    BY <2>4, Zenon DEF Done
  <2>6. QED
    BY <2>1, <2>3, <2>5, WholeIsContent, Zenon
<1>2. QED
  BY <1>1, CopyInit, CopyStep, PTL DEF Spec

\* A source is never replaced while the user resumes: neither between two attempts nor while
\* one runs.
LEMMA Unreplaced ==
  ASSUME \A w \in BOOLEAN : <<TRUE, w>> \notin MayReplace
  PROVE  Spec => [](\A f \in Files : Trusted(f))
<1>1. Init => \A f \in Files : Trusted(f)
  BY ZenonT(60) DEF Init, Trusted
<1>2. TypeOK /\ (\A f \in Files : Trusted(f)) /\ [Next]_vars => (\A f \in Files : Trusted(f))'
  <2> SUFFICES ASSUME TypeOK, \A f \in Files : Trusted(f), [Next]_vars
               PROVE  (\A f \in Files : Trusted(f))'
    BY SMTT(60)
  <2>1. resume \in BOOLEAN
    BY CopyAssumption, Zenon DEF TypeOK
  <2>2. CASE UNCHANGED <<opts, src>>
    BY <2>2, ZenonT(60) DEF Trusted, opts
  <2>3. ASSUME NEW f \in Files, Replace(f)
        PROVE  (\A e \in Files : Trusted(e))'
    <3>1. <<resume, group = "run">> \in MayReplace /\ (group = "run") \in BOOLEAN /\ UNCHANGED opts
      BY <2>3, Zenon DEF Replace
    <3>2. resume # TRUE
      BY <3>1, Zenon
    <3>3. QED
      BY <3>1, <3>2, Zenon DEF Trusted, opts
  <2>4. \/ UNCHANGED <<opts, src>> \/ \E f \in Files : Replace(f)
    BY ZenonT(60) DEF Next, Progress, CallStep, Begin, Wait, Die, Fail, Go, Start, Open, CopyChunk, CopyEnd,
       Sync,
           verifyChecksum, TpcSource, TpcDest, TpcStart, TpcWait, Pull, Frame, vars
  <2>5. QED
    BY <2>2, <2>3, <2>4, Zenon
<1>3. QED
  BY <1>1, <1>2, TypeCorrect, PTL DEF Spec

(***************************************************************************)
(* The same with nothing said of the files themselves, where no source is  *)
(* replaced under a user who resumes.  With <<TRUE, FALSE>> in MayReplace  *)
(* it is false: the run copy_verified shows how.                           *)
(***************************************************************************)
THEOREM RightUnlessReplaced ==
  ASSUME \A w \in BOOLEAN : <<TRUE, w>> \notin MayReplace
  PROVE  Spec => []RightCopy
<1>1. TypeOK /\ (\A f \in Files : Trusted(f))
        /\ (group = "ok" => \A f \in settled : Trusted(f) => dst[f] = Content(f)) => RightCopy
  <2> SUFFICES ASSUME TypeOK, \A f \in Files : Trusted(f), group = "ok", NEW f \in settled,
                      Trusted(f) => dst[f] = Content(f)
               PROVE  dst[f] = Content(f)
    BY Zenon DEF RightCopy
  <2>1. f \in Copied
    BY Zenon DEF TypeOK
  <2>2. PICK c \in Calls : f \in Range(Walk(c))
    BY <2>1, Zenon DEF Copied
  <2>3. f \in Files
    BY <2>2, CallFacts DEF TypeOK, Range
  <2>4. QED
    BY <2>3, Zenon
<1>2. QED
  BY <1>1, TypeCorrect, Unreplaced, CopiesAreRight, PTL

LEMMA BeginsSame ==
  ASSUME NEW S, NEW s \in Seq(S)
  PROVE  Begins(s, s)
  BY DEF Begins

LEMMA BeginsAppend ==
  ASSUME NEW S, NEW s \in Seq(S), NEW x \in S
  PROVE  Begins(s, Append(s, x))
<1>1. Len(s) \in Nat /\ Len(Append(s, x)) = Len(s) + 1
  OBVIOUS
<1>2. SubSeq(s, 1, Len(s)) = SubSeq(Append(s, x), 1, Len(s))
  OBVIOUS
<1>3. QED
  BY <1>2 DEF Begins

\* Which steps write to a destination.
LEMMA Writers ==
  ASSUME CInv, Next, NEW f \in Files, dst'[f] # dst[f]
  PROVE  \E c \in Calls : f = File(c) /\ (Open(c) \/ CopyChunk(c) \/ TpcDest(c) \/ Pull(c))
<1>1. PICK c \in Calls : Open(c) \/ CopyChunk(c) \/ TpcDest(c) \/ Pull(c)
  BY Zenon DEF Next, Progress, CallStep, Begin, Wait, Die, Fail, Replace, Go, Start, CopyEnd, Sync,
         verifyChecksum, TpcSource, TpcStart, TpcWait
<1>2. dst \in [Files -> Seq(Chunks)] /\ File(c) \in Files
  BY FileType, Zenon DEF CInv, TypeOK
<1>3. \/ UNCHANGED dst
      \/ \E s : dst' = [dst EXCEPT ![File(c)] = s]
  BY <1>1, ZenonT(60) DEF Open, OpenResumed, OpenAfresh, OpenUnknown, OpenAt, CopyChunk, Put, TpcDest, Pull
<1>4. f = File(c)
  BY <1>2, <1>3, Zenon
<1>5. QED
  BY <1>1, <1>4, Zenon

LEMMA OnlyGrows ==
  ASSUME CInv, Next, resume, NEW c \in Calls, Kind(c) = "down", NEW k \in DOMAIN Walk(c),
         \A f \in Files : Trusted(f)
  PROVE  Begins(dst[Walk(c)[k]], dst'[Walk(c)[k]])
<1> SUFFICES ASSUME NEW f, f = Walk(c)[k]
             PROVE  Begins(dst[f], dst'[f])
  BY SMTT(60)
<1>0. TypeOK /\ calls \in Groups /\ f \in Files /\ dst[f] \in Seq(Chunks) /\ Part(f)
  <2>1. TypeOK /\ calls \in Groups
    BY Zenon DEF CInv, TypeOK
  <2>2. f \in Files
    BY <2>1, CallFacts
  <2>3. QED
    BY <2>2, Zenon DEF CInv, TypeOK, Resumable
<1>1. CASE dst'[f] = dst[f]
  BY <1>0, <1>1, BeginsSame, Zenon
<1>2. CASE dst'[f] # dst[f]
  <2>1. PICK d \in Calls : f = File(d) /\ (Open(d) \/ CopyChunk(d) \/ TpcDest(d) \/ Pull(d))
    BY <1>0, <1>2, Writers, Zenon
  <2>2. d = c
    <3>1. job[d].i \in DOMAIN Walk(d) /\ Walk(d)[job[d].i] = Walk(c)[k]
      BY <1>0, <2>1, FileType, Zenon DEF File
    <3>2. QED
      BY <1>0, <3>1, OneOwner
  <2>3. /\ Stage(c) /\ Len(dst[f]) \in Nat /\ src[f].size \in Nat /\ src[f].size <= MaxSize
        /\ src[f].ver \in Versions /\ MaxSize \in Nat
    BY <2>1, CallContext, FileType, Zenon
  <2>4. Open(c) \/ CopyChunk(c)
    BY <2>1, <2>2, <2>3, Zenon DEF Stage, TpcDest, Pull
  <2>5. CASE Open(c)
    <3> DEFINE r == resumeOffsetSize(Len(dst[f]), src[f].size)
    <3>1. IF r.complete THEN UNCHANGED dst ELSE OpenAt(c, r.offset)
      BY <2>1, <2>2, <2>5, Zenon DEF Open, OpenResumed, OpenAfresh, OpenUnknown
    <3>2. Len(dst[f]) <= src[f].size
      BY <1>0, Zenon DEF Part
    <3>3. ~r.complete /\ r.offset = 0 => Len(dst[f]) = 0
      BY <2>3, <3>2 DEF resumeOffsetSize
    <3> HIDE DEF r
    <3>4. dst'[f] = IF r.offset = 0 THEN <<>> ELSE dst[f]
      BY <1>0, <1>2, <3>1, Zenon DEF OpenAt, TypeOK
    <3>5. Len(dst[f]) = 0 => dst[f] = <<>>
      BY SMTT(60)
    <3>6. QED
      BY <1>2, <3>1, <3>3, <3>4
  <2>6. CASE CopyChunk(c)
    <3>1. /\ job[c].off = Len(dst[f]) /\ Len(dst[f]) < src[f].size /\ Put(c, job[c].off)
      BY <2>1, <2>2, <2>3, <2>6, Zenon DEF CopyChunk, Stage
    <3>2. dst'[f] = Append(dst[f], Chunk(f, Len(dst[f]) + 1))
      BY <1>0, <2>1, <2>2, <3>1, Zenon DEF Put, TypeOK
    <3>3. Chunk(f, Len(dst[f]) + 1) \in Chunks
      BY <2>3, <3>1 DEF Chunk, Chunks
    <3>4. QED
      BY <1>0, <3>2, <3>3, BeginsAppend, Zenon
  <2>7. QED
    BY <2>4, <2>5, <2>6, Zenon
<1>3. QED
  BY <1>1, <1>2, Zenon

(***************************************************************************)
(* Options.Resume: no attempt, first or repeated, takes back what an       *)
(* earlier one has downloaded, where no source is replaced under a user    *)
(* who resumes.                                                            *)
(***************************************************************************)
THEOREM ResumeContinues ==
  ASSUME \A w \in BOOLEAN : <<TRUE, w>> \notin MayReplace
  PROVE  Spec => Continues
<1> DEFINE Grow == resume => \A c \in Calls : Kind(c) = "down" =>
                     \A f \in Range(Walk(c)) : Begins(dst[f], dst'[f])
<1>1. CInv /\ (\A f \in Files : Trusted(f)) /\ [Next]_vars => [Grow]_vars
  <2> SUFFICES ASSUME CInv, \A f \in Files : Trusted(f), Next
               PROVE  Grow
    BY Zenon
  <2>1. QED
    BY OnlyGrows, Zenon DEF Range
<1>2. QED
  BY <1>1, CopyInit, CopyStep, Unreplaced, PTL DEF Spec, Continues

=============================================================================
