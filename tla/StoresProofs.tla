----------------------------- MODULE StoresProofs -----------------------------
(***************************************************************************)
(* Proofs about MCStores: what a run finds prepared is fit for use, what   *)
(* is shared or copied is not lost on the way, old insights come into a    *)
(* journal once, a journal comes out of its archive as it was packed, a    *)
(* chunk is found under its number, and mind maps point at what is there.  *)
(* The parts share no state, so each has an inductive invariant of its     *)
(* own, kept by its own steps and, as it names no other variable, by all   *)
(* other.                                                                  *)
(***************************************************************************)
EXTENDS MCStores, MapProofs, FiniteSetTheorems, SequenceTheorems, WellFoundedInduction, TLAPS

-----------------------------------------------------------------------------
(* The document index.  The hash is read before the text: where the two    *)
(* differ the file was edited in between, and what it held before does not *)
(* come back.                                                              *)
JobKnows(w) ==
    /\ "step" \in DOMAIN job[w]
    /\ job[w].step \in {"text", "commit"} =>
         job[w].path \in Paths /\ job[w].sha \in seen[job[w].path]
    /\ job[w].step = "commit" =>
         job[w].text = job[w].sha \/ job[w].sha # onDisk[job[w].path]

LibraryInv ==
    /\ onDisk \in [Paths -> Contents]
    /\ \A p \in Paths : onDisk[p] \in seen[p] /\ seen[p] \subseteq Contents
    /\ seen = [p \in Paths |-> seen[p]] /\ docs = [p \in Paths |-> docs[p]]
    /\ \A p \in Paths : docs[p] = NoContent \/ docs[p] \in seen[p]
    /\ chunks = [i \in Rows |-> chunks[i]]
    /\ job = [w \in Workers |-> job[w]]
    /\ \A w \in Workers : JobKnows(w)
    /\ UnchangedIsIndexed

LEMMA LibraryInitInv == LibraryInit => LibraryInv
<1> SUFFICES ASSUME LibraryInit PROVE LibraryInv
  OBVIOUS
<1> USE DEF LibraryInit
<1>1. \A w \in Workers : JobKnows(w)
  BY DEF JobKnows, Resting
<1>2. UnchangedIsIndexed
  BY DEF UnchangedIsIndexed
<1> QED BY <1>1, <1>2 DEF LibraryInv

(* What no step of a command does: the file is as it was.                  *)
LEMMA LibraryKeeps ==
  ASSUME LibraryInv, LibraryNext \/ UNCHANGED libraryVars
  PROVE  LibraryInv'
<1> USE LibraryAssumption
<1>1. CASE UNCHANGED libraryVars
  BY <1>1 DEF LibraryInv, libraryVars, JobKnows, UnchangedIsIndexed, RowsOf
<1>2. ASSUME NEW p \in Paths, NEW c \in Contents, Edit(p, c) PROVE LibraryInv'
  <2> USE <1>2 DEF LibraryInv, Edit
  <2>1. \A q \in Paths : /\ onDisk'[q] \in seen'[q] /\ seen'[q] \subseteq Contents
                         /\ docs'[q] = NoContent \/ docs'[q] \in seen'[q]
                         /\ seen[q] \subseteq seen'[q]
    OBVIOUS
  <2>2. \A w \in Workers : JobKnows(w)'
    BY <2>1 DEF JobKnows
  <2>3. UnchangedIsIndexed'
    BY DEF UnchangedIsIndexed, RowsOf
  <2> QED BY <2>1, <2>2, <2>3
<1>3. ASSUME NEW p \in Paths, DeleteDoc(p) PROVE LibraryInv'
  <2> USE <1>3 DEF LibraryInv, DeleteDoc
  <2>1. \A w \in Workers : JobKnows(w)'
    BY DEF JobKnows
  <2>2. ASSUME NEW q \in Paths, q # p, NEW i \in Rows, chunks'[i].path = q
        PROVE  chunks[i].path = q /\ chunks'[i] = chunks[i]
    BY <2>2 DEF Replaced, NoChunk
  <2>3. UnchangedIsIndexed'
    BY <2>2 DEF UnchangedIsIndexed, RowsOf
  <2> QED BY <2>1, <2>3 DEF Replaced
<1>4. ASSUME NEW w \in Workers, Commit(w) PROVE LibraryInv'
  <2> DEFINE p == job[w].path
  <2> USE <1>4 DEF LibraryInv, Commit
  <2>1. p \in Paths /\ job[w].sha \in seen[p]
    BY DEF JobKnows
  <2>2. \A v \in Workers : JobKnows(v)'
    BY DEF JobKnows
  <2>3. ASSUME NEW q \in Paths, q # p, NEW i \in Rows, chunks'[i].path = q
        PROVE  chunks[i].path = q /\ chunks'[i] = chunks[i]
    BY <2>3 DEF Replaced, NoChunk
  <2>4. ASSUME NEW i \in Rows, chunks'[i].path = p
        PROVE  chunks'[i].text[1] = job[w].text
    BY <2>1, <2>4 DEF Replaced, NoChunk, ChunkText
  <2>5. UnchangedIsIndexed'
    <3> SUFFICES ASSUME NEW q \in Paths, docs'[q] = onDisk[q], NEW i \in Rows, chunks'[i].path = q,
                        docs'[q] # NoContent
                 PROVE  chunks'[i].text[1] = onDisk[q]
      BY DEF UnchangedIsIndexed, RowsOf
    <3>1. CASE q = p
      BY <3>1, <2>1, <2>4 DEF JobKnows
    <3>2. CASE q # p
      BY <3>2, <2>3, <2>1 DEF UnchangedIsIndexed, RowsOf
    <3> QED BY <3>1, <3>2
  <2>6. \A q \in Paths : docs'[q] = NoContent \/ docs'[q] \in seen[q]
    BY <2>1
  <2> QED BY <2>1, <2>2, <2>5, <2>6 DEF Replaced
<1>5. ASSUME NEW w \in Workers, NEW p \in Paths, ReadBytes(w, p) PROVE LibraryInv'
  BY <1>5 DEF LibraryInv, ReadBytes, JobKnows, UnchangedIsIndexed, RowsOf, Resting
<1>6. ASSUME NEW w \in Workers,
             ReadText(w) \/ Encode(w) \/ FetchIds(w) \/ StoreVectors(w) \/ KillIngest(w)
      PROVE  LibraryInv'
  <2> USE <1>6 DEF LibraryInv
  <2>1. UNCHANGED <<onDisk, seen, docs, chunks>>
    BY DEF ReadText, Encode, FetchIds, StoreVectors, KillIngest
  <2>2. \E j : /\ job' = [job EXCEPT ![w] = j]
              /\ "step" \in DOMAIN j
              /\ \/ j.step \notin {"text", "commit"}
                 \/ /\ job[w].step = "text" /\ j.step = "commit"
                    /\ j.path = job[w].path /\ j.sha = job[w].sha /\ j.text = onDisk[j.path]
    <3>1. CASE ReadText(w) \/ KillIngest(w) \/ StoreVectors(w)
      BY <3>1 DEF ReadText, StoreVectors, KillIngest, Resting
    <3>2. CASE Encode(w)
      BY <3>2 DEF Encode, Resting, JobKnows
    <3>3. CASE FetchIds(w)
      <4> DEFINE new == IF Cardinality(RowsOf(job[w].path)) # SizeOf[job[w].text] THEN Resting
                        ELSE [step |-> "store", text |-> job[w].text,
                              ids |-> [k \in 1 .. SizeOf[job[w].text] |-> RowOf(job[w].path, k)]]
      <4>1. job' = [job EXCEPT ![w] = new]
        BY <3>3 DEF FetchIds
      <4>2. "step" \in DOMAIN new /\ new.step \in {"rest", "store"}
        BY DEF Resting
      <4> HIDE DEF new
      <4> QED BY <4>1, <4>2
    <3> QED BY <1>6, <3>1, <3>2, <3>3
  <2>4. job' = [v \in Workers |-> job'[v]] /\ \A v \in Workers : JobKnows(v)'
    BY <2>1, <2>2 DEF JobKnows
  <2>3. UnchangedIsIndexed'
    BY <2>1 DEF UnchangedIsIndexed, RowsOf
  <2> QED BY <2>1, <2>3, <2>4
<1>7. ASSUME NEW p \in Paths, ReindexPages(p) PROVE LibraryInv'
  BY <1>7 DEF LibraryInv, ReindexPages, JobKnows, UnchangedIsIndexed, RowsOf
<1> QED BY <1>1, <1>2, <1>3, <1>4, <1>5, <1>6, <1>7 DEF LibraryNext

-----------------------------------------------------------------------------
(* The models.  One process at a time is at whisper's .part file, which    *)
(* holds the first pieces of the model, and what is to come of a response  *)
(* are the rest; one is at parakeet's archive, and nothing is lifted from  *)
(* it before all of it is unpacked.                                        *)
AtPart == {"ask", "copy", "copied"}
AtArchive == {"fetch", "unpack", "lift"}

Counts(s, from) == s \in Seq(Nat) /\ \A i \in 1 .. Len(s) : s[i] = from + i

Download(p) ==
    /\ doing[p] = "copy" => Counts(rest[p], Len(part)) /\ Len(part) + Len(rest[p]) = ModelSize
    /\ doing[p] = "copied" => Len(part) = ModelSize

ModelsInv ==
    /\ doing = [p \in Fetchers |-> doing[p]] /\ rest = [p \in Fetchers |-> rest[p]]
    /\ Counts(part, 0) /\ Len(part) <= ModelSize
    /\ \A p \in Fetchers : Download(p)
    /\ \A p, q \in Fetchers : p # q =>
         /\ doing[p] \in AtPart => doing[q] \notin AtPart
         /\ doing[p] \in AtArchive => doing[q] \notin AtArchive
    /\ \A p \in Fetchers : doing[p] = "lift" => \A f \in Archived : inner[f] # "cut"
    /\ inner = [f \in Archived |-> inner[f]] /\ files = [f \in Archived |-> files[f]]
    /\ ModelsSafe

LEMMA ModelsInitInv == ModelsInit => ModelsInv
BY ModelsAssumption DEF ModelsInit, ModelsInv, ModelsSafe, Counts, Download, AtPart, AtArchive

(* A file with all the pieces in their order is the model.                 *)
LEMMA AllCounted ==
  ASSUME NEW s, Counts(s, 0), Len(s) = ModelSize
  PROVE  s = Model
BY ModelsAssumption DEF Counts, Model

LEMMA NothingCounted == Counts(<<>>, 0) /\ Len(<<>>) = 0
BY DEF Counts

LEMMA ModelCounted == Counts(Model, 0) /\ Len(Model) = ModelSize
<1>1. ModelSize \in Nat
  BY ModelsAssumption
<1>2. Model \in [1 .. ModelSize -> Nat] /\ \A i \in 1 .. ModelSize : Model[i] = i
  BY <1>1 DEF Model
<1>3. Model \in Seq(Nat) /\ Len(Model) = ModelSize
  BY <1>1, <1>2
<1> QED BY <1>1, <1>2, <1>3 DEF Counts

LEMMA RestCounted ==
  ASSUME NEW n \in 0 .. ModelSize - 1
  PROVE  LET s == SubSeq(Model, n + 1, ModelSize)
         IN  Counts(s, n) /\ Len(s) = ModelSize - n
BY ModelsAssumption DEF Counts, Model

(* A piece goes from the rest to what is there.                            *)
LEMMA OneMoreCounted ==
  ASSUME NEW s, NEW t, Counts(s, 0), Counts(t, Len(s)), t # <<>>
  PROVE  /\ Counts(Append(s, Head(t)), 0) /\ Len(Append(s, Head(t))) = Len(s) + 1
         /\ Counts(Tail(t), Len(s) + 1) /\ Len(Tail(t)) = Len(t) - 1
<1>1. Len(t) \in Nat \ {0} /\ Len(s) \in Nat /\ t \in Seq(Nat) /\ s \in Seq(Nat)
  BY DEF Counts
<1>2. Head(t) = Len(s) + 1
  BY <1>1 DEF Counts
<1>3. Counts(Append(s, Head(t)), 0) /\ Len(Append(s, Head(t))) = Len(s) + 1
  BY <1>1, <1>2 DEF Counts
<1>4. Counts(Tail(t), Len(s) + 1) /\ Len(Tail(t)) = Len(t) - 1
  <2>1. Tail(t) \in Seq(Nat) /\ Len(Tail(t)) = Len(t) - 1
    BY <1>1
  <2>2. ASSUME NEW i \in 1 .. Len(Tail(t)) PROVE Tail(t)[i] = Len(s) + 1 + i
    <3>1. Tail(t)[i] = t[i + 1] /\ i + 1 \in 1 .. Len(t)
      BY <1>1, <2>1
    <3> QED BY <1>1, <3>1 DEF Counts
  <2> QED BY <2>1, <2>2 DEF Counts
<1> QED BY <1>3, <1>4

LEMMA ModelsKeeps ==
  ASSUME ModelsInv, ModelsNext \/ UNCHANGED modelVars
  PROVE  ModelsInv'
<1> USE ModelsAssumption
<1>1. CASE UNCHANGED modelVars
  BY <1>1 DEF ModelsInv, modelVars, whisper, parakeet, ModelsSafe, Download, Counts
<1>2. ASSUME NEW p \in Fetchers, Want(p) \/ WantFiles(p) \/ LoadModel(p) \/ Refuse416(p) \/ LockDownload(p)
      PROVE  ModelsInv'
  <2>1. UNCHANGED <<whisper, parakeet>>
    BY <1>2 DEF Want, WantFiles, LoadModel, Refuse416, LockDownload
  <2>2. /\ doing' = [doing EXCEPT ![p] = doing'[p]]
        /\ doing'[p] \notin {"copy", "copied", "lift"} \cup AtArchive
        /\ doing'[p] = "ask" => \A q \in Fetchers : doing[q] \notin AtPart
    BY <1>2 DEF Want, WantFiles, LoadModel, Refuse416, LockDownload, Goes, ModelsInv, Free, AtPart, AtArchive
  <2> QED BY <2>1, <2>2 DEF ModelsInv, whisper, parakeet, ModelsSafe, Download, Counts, AtPart, AtArchive
<1>3. ASSUME NEW p \in Fetchers, NEW ranges \in BOOLEAN, Request(p, ranges) PROVE ModelsInv'
  <2> USE DEF ModelsInv
  <2>1. UNCHANGED <<bin, parakeet>> /\ doing[p] = "ask"
    BY <1>3 DEF Request, whisper
  <2>2. CASE UNCHANGED whisper /\ Goes(p, "refused")
    BY <2>1, <2>2 DEF whisper, parakeet, Goes, ModelsSafe, Download, Counts, AtPart, AtArchive
  <2>3. CASE /\ Goes(p, "copy")
             /\ \/ /\ part' = part /\ Len(part) < ModelSize
                   /\ rest' = [rest EXCEPT ![p] = SubSeq(Model, Len(part) + 1, ModelSize)]
                \/ part' = <<>> /\ rest' = [rest EXCEPT ![p] = Model]
    <3>1. Counts(part', 0) /\ Len(part') <= ModelSize
      BY <2>3, NothingCounted
    <3>2. Counts(rest'[p], Len(part')) /\ Len(part') + Len(rest'[p]) = ModelSize
      <4>1. CASE /\ part' = part /\ Len(part) < ModelSize
                 /\ rest'[p] = SubSeq(Model, Len(part) + 1, ModelSize)
        <5>1. Len(part) \in 0 .. ModelSize - 1
          BY <4>1 DEF Counts
        <5>2. Counts(rest'[p], Len(part)) /\ Len(rest'[p]) = ModelSize - Len(part)
          BY <4>1, <5>1, RestCounted
        <5> QED BY <4>1, <5>1, <5>2
      <4>2. CASE part' = <<>> /\ rest'[p] = Model
        BY <4>2, ModelCounted, NothingCounted
      <4> QED BY <4>1, <4>2, <2>3
    <3>3. \A q \in Fetchers : Download(q)'
      BY <2>1, <2>3, <3>2 DEF Download, Goes, AtPart
    <3> QED BY <2>1, <2>3, <3>1, <3>3 DEF parakeet, Goes, ModelsSafe, AtPart, AtArchive
  <2> QED BY <1>3, <2>2, <2>3 DEF Request, Opened
<1>4. ASSUME NEW p \in Fetchers, CopyPiece(p) PROVE ModelsInv'
  <2> USE <1>4 DEF ModelsInv, CopyPiece
  <2>1. Counts(rest[p], Len(part)) /\ Len(part) + Len(rest[p]) = ModelSize
    BY DEF Download
  <2>2. /\ Counts(part', 0) /\ Len(part') = Len(part) + 1
        /\ Counts(Tail(rest[p]), Len(part) + 1) /\ Len(Tail(rest[p])) = Len(rest[p]) - 1
    BY <2>1, OneMoreCounted
  <2>3. rest'[p] = Tail(rest[p]) /\ Counts(rest'[p], Len(part')) /\ Len(part') + Len(rest'[p]) = ModelSize
    <3>1. rest'[p] = Tail(rest[p])
      OBVIOUS
    <3>2. Len(part) \in Nat /\ Len(rest[p]) \in Nat
      BY <2>1 DEF Counts
    <3> QED BY <3>1, <3>2, <2>1, <2>2
  <2>4. doing'[p] \in {"copy", "copied"} /\ doing' = [doing EXCEPT ![p] = doing'[p]]
        /\ (doing'[p] = "copied" => rest'[p] = <<>>)
    BY DEF Goes
  <2>5. \A q \in Fetchers : Download(q)'
    <3>1. Download(p)'
      <4>1. Len(part') \in Nat
        BY <2>2 DEF Counts
      <4>2. rest'[p] = <<>> => Len(rest'[p]) = 0
        BY NothingCounted
      <4> QED BY <2>3, <2>4, <4>1, <4>2 DEF Download
    <3>2. ASSUME NEW q \in Fetchers, q # p PROVE Download(q)'
      BY <3>2, <2>4 DEF Download, AtPart
    <3> QED BY <3>1, <3>2
  <2>6. Len(part') <= ModelSize
    BY <2>3 DEF Counts
  <2> QED BY <2>2, <2>4, <2>5, <2>6 DEF parakeet, ModelsSafe, AtPart, AtArchive
<1>5. ASSUME NEW p \in Fetchers, Place(p) PROVE ModelsInv'
  <2> USE <1>5 DEF ModelsInv, Place
  <2>1. Len(part) = ModelSize /\ part = Model
    BY AllCounted DEF Download
  <2>2. bin' = Model /\ part' = <<>> /\ Goes(p, "ready") /\ UNCHANGED rest
    BY <2>1
  <2>3. Counts(part', 0) /\ Len(part') <= ModelSize
    BY <2>2 DEF Counts
  <2>4. \A q \in Fetchers : Download(q)'
    BY <2>2 DEF Download, Goes, AtPart
  <2> QED BY <2>2, <2>3, <2>4 DEF parakeet, ModelsSafe, AtPart, AtArchive, Goes
<1>6. ASSUME NEW p \in Fetchers, LockArchive(p) \/ FetchArchive(p) \/ Unpacked(p) \/ Lifted(p)
      PROVE  ModelsInv'
  <2>1. UNCHANGED <<whisper, files>> /\ (inner' = inner \/ inner' = [f \in Archived |-> "none"])
    BY <1>6 DEF LockArchive, FetchArchive, Unpacked, Lifted
  <2>2. /\ doing' = [doing EXCEPT ![p] = doing'[p]]
        /\ doing'[p] \notin AtPart
        /\ doing'[p] \in AtArchive => doing[p] \in AtArchive \/ \A q \in Fetchers : doing[q] \notin AtArchive
        /\ doing'[p] = "lift" => \A f \in Archived : inner'[f] # "cut"
    BY <1>6 DEF LockArchive, FetchArchive, Unpacked, Lifted, Goes, ModelsInv, Free, AtPart, AtArchive
  <2>3. \A q \in Fetchers : Download(q)'
    BY <2>1, <2>2 DEF ModelsInv, Download, whisper, AtPart
  <2> QED BY <2>1, <2>2, <2>3 DEF ModelsInv, whisper, ModelsSafe, Counts, AtPart, AtArchive
<1>7. ASSUME NEW p \in Fetchers, NEW f \in Archived, Unpack(p, f) \/ UnpackRest(p, f) \/ Lift(p, f)
      PROVE  ModelsInv'
  <2>1. UNCHANGED <<whisper, doing>>
    BY <1>7 DEF Unpack, UnpackRest, Lift
  <2>2. /\ inner' = [g \in Archived |-> inner'[g]] /\ files' = [g \in Archived |-> files'[g]]
        /\ \A g \in Archived : files'[g] # "cut"
        /\ \A q \in Fetchers : doing[q] = "lift" => \A g \in Archived : inner'[g] # "cut"
    BY <1>7 DEF Unpack, UnpackRest, Lift, UnpackInto, ModelsInv, ModelsSafe, AtArchive
  <2> QED BY <2>1, <2>2 DEF ModelsInv, whisper, ModelsSafe, Download, Counts
<1>8. ASSUME NEW p \in Fetchers, Break(p) PROVE ModelsInv'
  BY <1>8 DEF Break, Goes, ModelsInv, parakeet, ModelsSafe, Download, Counts, AtPart, AtArchive
<1> QED BY <1>1, <1>2, <1>3, <1>4, <1>5, <1>6, <1>7, <1>8 DEF ModelsNext

-----------------------------------------------------------------------------
(* The databases.  Which script an opener runs tells what version it read, *)
(* and how much of it is left what the index has by now, with whoever else *)
(* migrates beside it.                                                     *)
FreshFrom(k) == SubSeq(Fresh, k, 7)
Done(k) == V1 \cup UNION {Fresh[j].what : j \in 1 .. k - 1}
OfTwo == <<[do |-> "v2", what |-> {}]>>
OfThree == <<Create({"chunks_vec", "pages"}), Converge>>

IndexFits ==
    /\ version \in 0 .. Current
    /\ version = 0 => index \subseteq V6
    /\ version = 2 => index = Left[2]
    /\ version = 3 => index \in {Left[3], V6}
    /\ version \in {4, 5} => index = V6 \cup Insights
    /\ VersionTells

ScriptFits(o) ==
    \/ script[o] = <<>> /\ version # 0
    \/ \E k \in 1 .. 7 : script[o] = FreshFrom(k) /\ version \in {0, Current} /\ Done(k) \subseteq index
    \/ script[o] = OfTwo /\ version \in {2, Current}
    \/ script[o] = OfThree /\ version \in 3 .. Current
    \/ script[o] = <<Converge>> /\ version \in 3 .. Current /\ index \in {V6, V6 \cup Insights}

IndexInv ==
    /\ opener = [o \in Openers |-> opener[o]] /\ script = [o \in Openers |-> script[o]]
    /\ IndexFits
    /\ \A o \in Openers : opener[o] = "index" => V1 \subseteq index /\ ScriptFits(o)

(* The making of a fresh index, and what is left of it.                    *)
LEMMA FreshIsAll ==
  /\ Fresh \in Seq({Fresh[j] : j \in 1 .. 7}) /\ Len(Fresh) = 7
  /\ FreshFrom(1) = Fresh
  /\ \A k \in 1 .. 7 : FreshFrom(k) # <<>>
<1>1. Fresh \in Seq({Fresh[j] : j \in 1 .. 7}) /\ Len(Fresh) = 7
  <2>1. Fresh = [j \in 1 .. 7 |-> Fresh[j]]
    BY DEF Fresh
  <2> DEFINE S == {Fresh[j] : j \in 1 .. 7}
  <2>2. Fresh \in [1 .. 7 -> S]
    BY <2>1
  <2> HIDE DEF S
  <2>3. 7 \in Nat
    OBVIOUS
  <2>4. Fresh \in Seq(S) /\ Len(Fresh) = 7
    BY <2>2, <2>3, FunctionIsSeq, Zenon
  <2> QED BY <2>4 DEF S
<1>2. FreshFrom(1) = Fresh
  BY <1>1, SubSeqFull DEF FreshFrom
<1>3. ASSUME NEW k \in 1 .. 7 PROVE FreshFrom(k) # <<>>
  <2>1. Len(FreshFrom(k)) = 8 - k
    BY <1>1 DEF FreshFrom
  <2>2. Len(<<>>) = 0
    OBVIOUS
  <2> QED BY <2>1, <2>2
<1> QED BY <1>1, <1>2, <1>3

(* What a step of each script makes of an index it can find.               *)
LEMMA FreshStep ==
  ASSUME NEW k \in 1 .. 7, NEW old, old \subseteq V6, Done(k) \subseteq old
  PROVE  /\ Head(FreshFrom(k)) = Fresh[k]
         /\ k < 7 => Tail(FreshFrom(k)) = FreshFrom(k + 1) /\ Fresh[k].do \in {"alter", "create"}
         /\ k = 7 => Tail(FreshFrom(k)) = <<>> /\ Fresh[k].do = "stamp" /\ old = V6
         /\ \/ Following(old, Fresh[k]) = {}
            \/ /\ old \subseteq Following(old, Fresh[k]) /\ Following(old, Fresh[k]) \subseteq V6
               /\ Done(k + 1) \subseteq Following(old, Fresh[k])
         /\ old = V6 => Following(old, Fresh[k]) \in {{}, V6}
<1>1. Fresh \in Seq({Fresh[j] : j \in 1 .. 7}) /\ Len(Fresh) = 7
  BY FreshIsAll
<1>2. /\ Fresh[1] = Alter("type") /\ Fresh[2] = Alter("image_bytes")
      /\ Fresh[3] = Create({"chunks_vec"}) /\ Fresh[4] = Alter("page_start")
      /\ Fresh[5] = Alter("page_end") /\ Fresh[6] = Create({"pages"}) /\ Fresh[7] = Stamp
  BY DEF Fresh
<1>3. Head(FreshFrom(k)) = Fresh[k]
  BY <1>1 DEF FreshFrom
<1>4. k < 7 => Tail(FreshFrom(k)) = FreshFrom(k + 1)
  <2> SUFFICES ASSUME k < 7 PROVE Tail(FreshFrom(k)) = FreshFrom(k + 1)
    OBVIOUS
  <2> DEFINE S == {Fresh[j] : j \in 1 .. 7}
  <2>1. /\ FreshFrom(k) \in Seq(S) /\ Len(FreshFrom(k)) = 8 - k
        /\ \A j \in 1 .. 8 - k : FreshFrom(k)[j] = Fresh[k + j - 1]
    BY <1>1 DEF FreshFrom
  <2>2. /\ FreshFrom(k + 1) \in Seq(S) /\ Len(FreshFrom(k + 1)) = 7 - k
        /\ \A j \in 1 .. 7 - k : FreshFrom(k + 1)[j] = Fresh[k + j]
    BY <1>1, SMTT(30) DEF FreshFrom
  <2>3. /\ Tail(FreshFrom(k)) \in Seq(S) /\ Len(Tail(FreshFrom(k))) = 7 - k
        /\ \A j \in 1 .. 7 - k : Tail(FreshFrom(k))[j] = Fresh[k + j]
    BY <2>1
  <2> QED BY <2>2, <2>3, SeqEqual
<1>5. k = 7 => Tail(FreshFrom(k)) = <<>>
  BY <1>1 DEF FreshFrom
<1>6. k = 1 \/ k = 2 \/ k = 3 \/ k = 4 \/ k = 5 \/ k = 6 \/ k = 7
  OBVIOUS
<1>7. Done(k + 1) = Done(k) \cup Fresh[k].what
  BY DEF Done
<1>8. k = 7 => old = V6
  <2> SUFFICES ASSUME k = 7 PROVE V6 \subseteq Done(7)
    OBVIOUS
  <2>1. \A j \in 1 .. 6 : Fresh[j].what \subseteq Done(7)
    BY DEF Done
  <2>2. /\ "type" \in Done(7) /\ "image_bytes" \in Done(7) /\ "chunks_vec" \in Done(7)
        /\ "page_start" \in Done(7) /\ "page_end" \in Done(7) /\ "pages" \in Done(7)
    BY <2>1, <1>2 DEF Alter, Create
  <2>3. V1 \subseteq Done(7)
    BY DEF Done
  <2> QED BY <2>2, <2>3 DEF V6
<1>9. k < 7 => Fresh[k].do \in {"alter", "create"}
  BY <1>2, <1>6 DEF Alter, Create
<1>10. Fresh[k].what \subseteq V6 /\ (k = 7 => Fresh[k] = Stamp)
  BY <1>2, <1>6 DEF Alter, Create, Stamp, V6
<1>11. "page_num" \notin old
  BY DEF V6, V1
<1>12. CASE Fresh[k].do = "alter"
  BY <1>2, <1>3, <1>4, <1>5, <1>7, <1>8, <1>9, <1>10, <1>12 DEF Following, Stamp
<1>13. CASE Fresh[k].do = "create"
  BY <1>2, <1>3, <1>4, <1>5, <1>7, <1>8, <1>9, <1>10, <1>11, <1>13 DEF Following, Renamed, Stamp
<1>14. CASE k = 7
  BY <1>2, <1>3, <1>5, <1>7, <1>8, <1>10, <1>14 DEF Following, Stamp
<1> QED BY <1>9, <1>12, <1>13, <1>14

LEMMA OlderSteps ==
  /\ Following(Left[2], [do |-> "v2", what |-> {}]) = V6
  /\ Following(V6, [do |-> "v2", what |-> {}]) = {}
  /\ \A old \in {Left[3], V6} : Following(old, Create({"chunks_vec", "pages"})) = V6
  /\ Following(V6 \cup Insights, Create({"chunks_vec", "pages"})) = V6 \cup Insights
  /\ \A old \in {V6, V6 \cup Insights} : Following(old, Converge) = V6
  /\ V1 \subseteq V6 /\ V1 \subseteq Left[2] /\ V1 \subseteq Left[3]
  /\ V6 # {}
<1>1. Left[2] = V1 \cup {"type", "image_bytes", "chunks_vec"} /\ Left[3] = (V6 \ {"pages"}) \cup {"page_num"}
  BY DEF Left, Current
<1>2. Following(Left[2], [do |-> "v2", what |-> {}]) = V6
  BY <1>1 DEF Following, V6, V1, Insights
<1>3. Following(V6, [do |-> "v2", what |-> {}]) = {}
  BY DEF Following, V6
<1>4. Following(Left[3], Create({"chunks_vec", "pages"})) = V6
  BY <1>1 DEF Following, Create, Renamed, V6, V1
<1>5. Following(V6, Create({"chunks_vec", "pages"})) = V6
  BY DEF Following, Create, Renamed, V6, V1
<1>6. Following(V6 \cup Insights, Create({"chunks_vec", "pages"})) = V6 \cup Insights
  BY DEF Following, Create, Renamed, V6, V1, Insights
<1>7. \A old \in {V6, V6 \cup Insights} : Following(old, Converge) = V6
  BY DEF Following, Converge, V6, V1, Insights
<1>8. V1 \subseteq V6 /\ V1 \subseteq Left[2] /\ V1 \subseteq Left[3] /\ V6 # {}
  BY <1>1 DEF V1, V6
<1> QED BY <1>2, <1>3, <1>4, <1>5, <1>6, <1>7, <1>8

(* What one opener does to the index takes nothing from what another's     *)
(* script counts on.                                                       *)
IndexMoves ==
    \/ /\ version' = version /\ index \subseteq index'
       /\ index \in {V6, V6 \cup Insights} => index' \in {V6, V6 \cup Insights}
    \/ version' \in {version, Current} \ {0} /\ index' = V6

LEMMA ShortTails ==
  ASSUME NEW a, NEW b
  PROVE  /\ Head(<<a>>) = a /\ Tail(<<a>>) = <<>>
         /\ Head(<<a, b>>) = a /\ Tail(<<a, b>>) = <<b>>
<1>1. <<a>> \in Seq({a, b}) /\ <<a>> # <<>> /\ Len(<<a>>) = 1
  OBVIOUS
<1>2. Tail(<<a>>) \in Seq({a, b}) /\ Len(Tail(<<a>>)) = 0
  BY <1>1
<1>3. <<a, b>> \in Seq({a, b}) /\ Len(<<a, b>>) = 2
  OBVIOUS
<1>4. Tail(<<a, b>>) \in Seq({a, b}) /\ Len(Tail(<<a, b>>)) = 1 /\ Tail(<<a, b>>)[1] = b
  BY <1>3
<1>5. <<b>> \in Seq({a, b}) /\ Len(<<b>>) = 1 /\ <<b>>[1] = b
  OBVIOUS
<1>6. Tail(<<a>>) = <<>>
  BY <1>2, EmptySeq
<1>7. Tail(<<a, b>>) = <<b>>
  BY <1>4, <1>5, SeqEqual
<1> QED BY <1>1, <1>3, <1>6, <1>7

LEMMA ScriptsStay ==
  ASSUME IndexFits, IndexMoves, NEW o, ScriptFits(o), V1 \subseteq index, script'[o] = script[o]
  PROVE  ScriptFits(o)' /\ V1 \subseteq index'
<1>1. V1 \subseteq index'
  BY OlderSteps DEF IndexMoves
<1>2. ASSUME NEW k \in 1 .. 7, version \in {0, Current}, Done(k) \subseteq index
      PROVE  version' \in {0, Current} /\ Done(k) \subseteq index'
  BY <1>2 DEF IndexFits, VersionTells, IndexMoves, Current
<1>3. \A v \in {0, 2, 3} : version \in v .. Current => version' \in v .. Current
  BY DEF IndexFits, IndexMoves, Current
<1> QED BY <1>1, <1>2, <1>3 DEF ScriptFits, IndexMoves, Current, IndexFits

(* A step of a script, by the script it is of.                             *)
LEMMA IndexStepFits ==
  ASSUME NEW o \in Openers, IndexInv, IndexStep(o)
  PROVE  IndexFits' /\ IndexMoves /\ (opener'[o] = "index" => ScriptFits(o)')
<1> DEFINE s == Head(script[o])
           F == Following(index, s)
<1> USE DEF IndexInv
<1>1. /\ V1 \subseteq index /\ ScriptFits(o) /\ script[o] # <<>>
      /\ index' = IF F = {} THEN index ELSE F
      /\ version' = IF F # {} /\ s.do \in {"stamp", "v2", "converge"} THEN Current ELSE version
      /\ F = {} => opener'[o] = "noIndex"
      /\ F # {} => script'[o] = Tail(script[o])
  BY DEF IndexStep
<1>2. CASE F = {}
  BY <1>1, <1>2 DEF IndexMoves, IndexFits, VersionTells
<1>3. ASSUME F # {}, NEW k \in 1 .. 7, script[o] = FreshFrom(k), version \in {0, Current},
             Done(k) \subseteq index
      PROVE  IndexFits' /\ IndexMoves /\ ScriptFits(o)'
  <2>1. index \subseteq V6 /\ s = Fresh[k] /\ (version = Current => index = V6)
    BY <1>3, FreshStep DEF IndexFits, VersionTells
  <2>2. /\ index \subseteq index' /\ index' \subseteq V6 /\ Done(k + 1) \subseteq index'
        /\ (version = Current => index' = V6)
    BY <1>1, <1>3, <2>1, FreshStep, ZenonT(60)
  <2>3. CASE k < 7
    <3>1. version' = version /\ script'[o] = FreshFrom(k + 1) /\ k + 1 \in 1 .. 7
      <4>1. Fresh[k].do \in {"alter", "create"} /\ Tail(FreshFrom(k)) = FreshFrom(k + 1)
        BY <1>3, <2>1, <2>3, FreshStep
      <4>2. script'[o] = Tail(FreshFrom(k)) /\ s.do = Fresh[k].do
        BY <1>1, <1>3, <2>1
      <4> QED BY <1>1, <2>3, <4>1, <4>2
    <3> QED BY <1>3, <2>1, <2>2, <3>1 DEF IndexFits, IndexMoves, VersionTells, ScriptFits, Current
  <2>4. CASE k = 7
    <3>1. version' = Current /\ script'[o] = <<>> /\ index' = V6
      BY <1>1, <1>3, <2>1, <2>2, <2>4, FreshStep
    <3> QED BY <3>1 DEF IndexFits, IndexMoves, VersionTells, ScriptFits, Current
  <2> QED BY <2>3, <2>4
<1>4. CASE F # {} /\ script[o] = OfTwo /\ version \in {2, Current}
  <2>1. s = [do |-> "v2", what |-> {}] /\ Tail(script[o]) = <<>>
    BY <1>4, ShortTails DEF OfTwo
  <2>2. version' = Current /\ script'[o] = <<>> /\ index' = V6
    <3>1. s.do = "v2"
      BY <2>1
    <3>2. version' = Current /\ script'[o] = <<>> /\ index' = F
      BY <1>1, <1>4, <2>1, <3>1
    <3>3. F = V6
      BY <1>4, <2>1, OlderSteps DEF IndexFits, VersionTells
    <3> QED BY <3>2, <3>3
  <2> QED BY <2>2 DEF IndexFits, IndexMoves, VersionTells, ScriptFits, Current
<1>5. CASE F # {} /\ script[o] = OfThree /\ version \in 3 .. Current
  <2>1. s = Create({"chunks_vec", "pages"}) /\ Tail(script[o]) = <<Converge>>
    BY <1>5, ShortTails DEF OfThree
  <2>2. version' = version /\ script'[o] = <<Converge>>
    <3>1. s.do = "create"
      BY <2>1 DEF Create
    <3> QED BY <1>1, <1>5, <2>1, <3>1
  <2>3. CASE version = 3
    <3>1. index' = V6
      BY <1>1, <1>5, <2>1, <2>3, OlderSteps DEF IndexFits
    <3>2. Left[3] \notin {V6, V6 \cup Insights}
      BY DEF Left, V6, V1, Current, Insights
    <3> QED BY <3>1, <3>2, <2>2, <2>3, <1>5 DEF IndexFits, IndexMoves, VersionTells, ScriptFits, Current
  <2>4. CASE version \in {4, 5, 6}
    <3>1. index' = index /\ index \in {V6, V6 \cup Insights}
      BY <1>1, <1>5, <2>1, <2>4, OlderSteps DEF IndexFits, VersionTells, Current
    <3> QED BY <3>1, <2>2, <2>4, <1>5 DEF IndexFits, IndexMoves, VersionTells, ScriptFits, Current
  <2> QED BY <1>5, <2>3, <2>4 DEF Current
<1>6. CASE F # {} /\ script[o] = <<Converge>> /\ version \in 3 .. Current /\ index \in {V6, V6 \cup Insights}
  <2>1. s = Converge /\ Tail(script[o]) = <<>>
    BY <1>6, ShortTails
  <2>2. version' = Current /\ script'[o] = <<>> /\ index' = V6
    <3>1. s.do = "converge"
      BY <2>1 DEF Converge
    <3>2. version' = Current /\ script'[o] = <<>> /\ index' = F
      BY <1>1, <1>6, <2>1, <3>1
    <3>3. F = V6
      BY <1>6, <2>1, OlderSteps
    <3> QED BY <3>2, <3>3
  <2> QED BY <2>2 DEF IndexFits, IndexMoves, VersionTells, ScriptFits, Current
<1> QED BY <1>1, <1>2, <1>3, <1>4, <1>5, <1>6 DEF ScriptFits

(* chat.db.  What an opener has yet to do and what is there make up        *)
(* everything; one beside whom nobody has opened anything finds the column *)
(* it looked for still missing, and a table of nicks not widened yet has   *)
(* at most the directory's row.                                            *)
ToDo(o) == {script[o][i] : i \in DOMAIN script[o]}

ProbedFits(o) ==
    probed[o] # {} =>
      /\ opener[o] = "chat" /\ script[o] # <<>> /\ probed[o] = {Head(script[o])}
      /\ Head(script[o]) \in Columns \cup {"terminal"}

ToDoFits(o) ==
    opener[o] = "chat" => script[o] \in Seq(Everything) /\ Everything \ ToDo(o) \subseteq chat

NarrowFits == "terminal" \notin chat => memory \subseteq {""}

AloneFits(o) ==
    /\ opener[o] # "noChat"
    /\ opener[o] \in {"index", "chat"} => \A q \in Openers : q # o => opener[q] \notin {"index", "chat"}
    /\ probed[o] \cap chat = {}

ChatInv ==
    /\ probed = [o \in Openers |-> probed[o]]
    /\ \A o \in Openers : ProbedFits(o)
    /\ \A o \in Openers : ToDoFits(o)
    /\ NarrowFits
    /\ alone \subseteq Openers /\ \A o \in alone : AloneFits(o)

SchemaInv == IndexInv /\ ChatInv

LEMMA MigrationsDoAll ==
  Migrations \in Seq(Everything) /\ Everything \subseteq {Migrations[i] : i \in DOMAIN Migrations}
<1>1. Migrations = [i \in 1 .. 16 |-> Migrations[i]]
  BY DEF Migrations
<1>2. /\ Migrations[1] = "base" /\ Migrations[2] = "routing" /\ Migrations[3] = "session_token"
      /\ Migrations[4] = "bots" /\ Migrations[5] = "chat_bindings" /\ Migrations[6] = "nick_memory"
      /\ Migrations[7] = "terminal" /\ Migrations[8] = "message_thread_id"
      /\ Migrations[9] = "conversation_nick" /\ Migrations[10] = "claude_session_id"
      /\ Migrations[11] = "registry_terminal" /\ Migrations[12] = "is_voice"
      /\ Migrations[13] = "pending_voice" /\ Migrations[14] = "callback_tokens"
      /\ Migrations[15] = "pending_asks" /\ Migrations[16] = "c2c"
  BY DEF Migrations
<1>3. \A i \in 1 .. 16 : Migrations[i] \in Everything
  <2> TAKE i \in 1 .. 16
  <2>1. \/ i \in 1 .. 5 \/ i \in 6 .. 10 \/ i \in 11 .. 16
    OBVIOUS
  <2>2. ASSUME i \in 1 .. 5 PROVE Migrations[i] \in Everything
    BY <1>2, <2>2 DEF Everything, Tables, Whole, Columns
  <2>3. ASSUME i \in 6 .. 10 PROVE Migrations[i] \in Everything
    BY <1>2, <2>3 DEF Everything, Tables, Whole, Columns
  <2>4. ASSUME i \in 11 .. 16 PROVE Migrations[i] \in Everything
    BY <1>2, <2>4 DEF Everything, Tables, Whole, Columns
  <2> QED BY <2>1, <2>2, <2>3, <2>4
<1>4. Migrations \in [1 .. 16 -> Everything]
  BY <1>1, <1>3
<1>5. Migrations \in Seq(Everything)
  BY <1>4, FunctionIsSeq
<1>6. DOMAIN Migrations = 1 .. 16
  BY <1>1
<1>7. Everything \subseteq {Migrations[i] : i \in 1 .. 16}
  BY <1>2 DEF Everything, Tables, Whole, Columns
<1> QED BY <1>5, <1>6, <1>7

LEMMA TailLeavesRest ==
  ASSUME NEW S, NEW s \in Seq(S), s # <<>>
  PROVE  /\ Tail(s) \in Seq(S) /\ Head(s) \in S
         /\ {s[i] : i \in DOMAIN s} \subseteq {Head(s)} \cup {Tail(s)[i] : i \in DOMAIN Tail(s)}
<1>1. Len(s) \in Nat \ {0} /\ DOMAIN s = 1 .. Len(s)
  BY EmptySeq, LenProperties
<1>2. Tail(s) \in Seq(S) /\ Len(Tail(s)) = Len(s) - 1 /\ DOMAIN Tail(s) = 1 .. Len(s) - 1
  BY <1>1
<1>3. ASSUME NEW i \in 1 .. Len(s)
      PROVE  s[i] = Head(s) \/ \E j \in DOMAIN Tail(s) : Tail(s)[j] = s[i]
  <2>1. CASE i = 1
    BY <2>1
  <2>2. CASE i # 1
    <3>1. i - 1 \in 1 .. Len(s) - 1 /\ Tail(s)[i - 1] = s[i]
      BY <1>1, <1>2, <2>2
    <3> QED BY <3>1, <1>2
  <2> QED BY <2>1, <2>2
<1>4. Head(s) \in S
  BY <1>1
<1> QED BY <1>1, <1>2, <1>3, <1>4

LEMMA LeftByVersion ==
  /\ Left[0] = {} /\ Left[4] = V6 \cup Insights
  /\ Left[5] = V6 \cup Insights /\ Left[6] = V6
<1>1. Left[0] = {}
  BY DEF Left, Current
<1>2. Left[4] = V6 \cup Insights
  BY DEF Left, Current
<1>3. Left[5] = V6 \cup Insights
  BY DEF Left, Current
<1>4. Left[6] = V6
  BY DEF Left, Current
<1> QED BY <1>1, <1>2, <1>3, <1>4

LEMMA SchemaInitInv == SchemaInit => SchemaInv
<1> SUFFICES ASSUME SchemaInit PROVE SchemaInv
  OBVIOUS
<1> USE DEF SchemaInit
<1>1. IndexFits
  BY LeftByVersion DEF IndexFits, VersionTells, Current
<1>2. IndexInv
  BY <1>1 DEF IndexInv
<1>3. ChatInv
  BY DEF ChatInv, ProbedFits, ToDoFits, NarrowFits
<1> QED BY <1>2, <1>3 DEF SchemaInv

(* A look at the databases: the script for what is there.                  *)
LEMMA OpenIndexFits ==
  ASSUME NEW o \in Openers, IndexInv, OpenIndex(o)
  PROVE  IndexFits' /\ IndexMoves /\ ScriptFits(o)'
<1>1. /\ index' = index \cup V1 /\ version' = version /\ script'[o] = ScriptFor(version)
      /\ version \in 0 .. Current
  BY DEF OpenIndex, IndexInv, IndexFits
<1>2. version # 0 /\ version # 1 => index' = index
  BY <1>1, OlderSteps DEF IndexInv, IndexFits, VersionTells, Current
<1>3. IndexFits' /\ IndexMoves
  <2>1. version = 0 => index' \subseteq V6
    BY <1>1, OlderSteps DEF IndexInv, IndexFits
  <2>2. version \in {0, 1} => version' = version
    BY <1>1
  <2>3. index \in {V6, V6 \cup Insights} => index' \in {V6, V6 \cup Insights}
    BY <1>1, OlderSteps
  <2> QED BY <1>1, <1>2, <2>1, <2>3 DEF IndexInv, IndexFits, IndexMoves, VersionTells, Current
<1>4. CASE version = 0
  <2>1. ScriptFor(version) = Fresh
    BY <1>4 DEF ScriptFor
  <2>2. FreshFrom(1) = Fresh
    BY FreshIsAll
  <2>3. Done(1) \subseteq index'
    BY <1>1 DEF Done
  <2>4. script'[o] = FreshFrom(1) /\ version' = 0
    BY <1>1, <1>4, <2>1, <2>2
  <2> QED BY <1>3, <2>3, <2>4 DEF ScriptFits
<1>5. CASE version = 2
  BY <1>1, <1>3, <1>5 DEF ScriptFor, ScriptFits, OfTwo
<1>6. CASE version \in 3 .. 5
  BY <1>1, <1>3, <1>6 DEF ScriptFor, ScriptFits, OfThree, Current
<1>7. CASE version \in {1, 6}
  BY <1>1, <1>3, <1>7 DEF ScriptFor, ScriptFits, Current
<1> QED BY <1>1, <1>4, <1>5, <1>6, <1>7 DEF Current

LEMMA IndexKeeps ==
  ASSUME SchemaInv, SchemaNext \/ UNCHANGED schemaVars
  PROVE  IndexInv'
<1> USE DEF SchemaInv, IndexInv
<1>1. CASE UNCHANGED schemaVars
  BY <1>1 DEF schemaVars, IndexFits, VersionTells, ScriptFits
<1>2. ASSUME NEW o \in Openers, OpenIndex(o) PROVE IndexInv'
  <2>1. IndexFits' /\ IndexMoves /\ ScriptFits(o)' /\ V1 \subseteq index'
    BY <1>2, OpenIndexFits DEF OpenIndex
  <2>2. ASSUME NEW q \in Openers, q # o, opener'[q] = "index" PROVE V1 \subseteq index' /\ ScriptFits(q)'
    <3>1. opener[q] = "index" /\ script'[q] = script[q]
      BY <1>2, <2>2 DEF OpenIndex
    <3> QED BY <2>1, <3>1, ScriptsStay
  <2> QED BY <1>2, <2>1, <2>2 DEF OpenIndex
<1>3. ASSUME NEW o \in Openers, IndexStep(o) PROVE IndexInv'
  <2>1. IndexFits' /\ IndexMoves /\ (opener'[o] = "index" => ScriptFits(o)')
    BY <1>3, IndexStepFits
  <2>2. /\ opener' = [q \in Openers |-> opener'[q]] /\ script' = [q \in Openers |-> script'[q]]
        /\ opener[o] = "index" /\ V1 \subseteq index
        /\ \A q \in Openers : q # o => opener'[q] = opener[q] /\ script'[q] = script[q]
    BY <1>3 DEF IndexStep
  <2>3. V1 \subseteq index'
    BY <2>1, <2>2, OlderSteps DEF IndexMoves
  <2>4. ASSUME NEW q \in Openers, q # o, opener'[q] = "index" PROVE ScriptFits(q)'
    BY <2>1, <2>2, <2>4, ScriptsStay
  <2> QED BY <2>1, <2>2, <2>3, <2>4
<1>4. ASSUME NEW o \in Openers, ValidateIndex(o) PROVE IndexInv'
  <2>1. version # 0
    <3>1. script[o] = <<>> /\ ScriptFits(o)
      BY <1>4 DEF ValidateIndex
    <3>2. \A k \in 1 .. 7 : FreshFrom(k) # <<>>
      BY FreshIsAll
    <3> QED BY <3>1, <3>2 DEF ScriptFits, OfTwo, OfThree, Current
  <2>2. UNCHANGED <<index, script, version>> /\ opener' = [opener EXCEPT ![o] = opener'[o]] /\ opener'[o] # "index"
    BY <1>4, <2>1 DEF ValidateIndex
  <2> QED BY <2>2 DEF IndexFits, VersionTells, ScriptFits
<1>5. ASSUME NEW o \in Openers,
             \/ OpenChat(o) \/ Idempotent(o) \/ Probe(o) \/ AddColumn(o) \/ Widen(o) \/ ChatIsOpen(o)
             \/ (\E t \in Terminals : Choose(o, t)) \/ ChooseForDirectory(o) \/ Close(o) \/ Kill(o)
      PROVE  IndexInv'
  <2>1. UNCHANGED <<index, version>>
    BY <1>5 DEF OpenChat, Idempotent, Probe, AddColumn, Widen, ChatIsOpen, Choose,
                ChooseForDirectory, Close, Kill
  <2>2. \/ opener' = [opener EXCEPT ![o] = opener'[o]] /\ opener'[o] # "index"
        \/ UNCHANGED opener
    BY <1>5 DEF OpenChat, Idempotent, Probe, AddColumn, Widen, ChatIsOpen, Choose,
                ChooseForDirectory, Close, Kill
  <2>3. \/ script' = [script EXCEPT ![o] = script'[o]] /\ (opener[o] # "index" \/ opener'[o] # "index")
        \/ UNCHANGED script
    BY <1>5 DEF OpenChat, Idempotent, Probe, AddColumn, Widen, ChatIsOpen, Choose,
                ChooseForDirectory, Close, Kill, Next1, ChatInv, ProbedFits
  <2> QED BY <2>1, <2>2, <2>3 DEF IndexFits, VersionTells, ScriptFits
<1> QED BY <1>1, <1>2, <1>3, <1>4, <1>5 DEF SchemaNext

LEMMA ToDoStays ==
  ASSUME NEW o, ToDoFits(o), script'[o] = script[o], opener'[o] = opener[o], chat \subseteq chat'
  PROVE  ToDoFits(o)'
BY DEF ToDoFits, ToDo

LEMMA ProbedStays ==
  ASSUME NEW o, ProbedFits(o), script'[o] = script[o], opener'[o] = opener[o], probed'[o] = probed[o]
  PROVE  ProbedFits(o)'
BY DEF ProbedFits

(* A step at the head of a script that leaves it done.                     *)
LEMMA HeadDone ==
  ASSUME NEW o, ToDoFits(o), opener[o] = "chat", script[o] # <<>>,
         script'[o] = Tail(script[o]), chat' = chat \cup {Head(script[o])}
  PROVE  ToDoFits(o)'
<1>1. /\ script'[o] \in Seq(Everything)
      /\ ToDo(o) \subseteq {Head(script[o])} \cup {script'[o][i] : i \in DOMAIN script'[o]}
  <2>1. script[o] \in Seq(Everything)
    BY DEF ToDoFits
  <2> DEFINE s == script[o]
  <2> HIDE DEF s
  <2>2. /\ Tail(s) \in Seq(Everything)
        /\ {s[i] : i \in DOMAIN s} \subseteq {Head(s)} \cup {Tail(s)[i] : i \in DOMAIN Tail(s)}
    <3>1. s \in Seq(Everything) /\ s # <<>>
      BY <2>1 DEF s
    <3> QED BY <3>1, TailLeavesRest
  <2>3. script'[o] = Tail(s) /\ ToDo(o) = {s[i] : i \in DOMAIN s} /\ Head(script[o]) = Head(s)
    BY DEF ToDo, s
  <2> QED BY <2>2, <2>3
<1>2. ToDo(o)' = {script'[o][i] : i \in DOMAIN script'[o]}
  BY DEF ToDo
<1>3. Everything \ ToDo(o)' \subseteq chat'
  BY <1>1, <1>2 DEF ToDoFits
<1> QED BY <1>1, <1>3 DEF ToDoFits

(* Where the steps of others leave what an opener counts on: nobody else   *)
(* changes a script, and chat.db only grows.                               *)
LEMMA OthersKeepChat ==
  ASSUME ChatInv, NEW o \in Openers,
         opener = [q \in Openers |-> opener[q]], script = [q \in Openers |-> script[q]],
         opener' = [opener EXCEPT ![o] = opener'[o]], script' = [script EXCEPT ![o] = script'[o]],
         probed' = [probed EXCEPT ![o] = probed'[o]],
         chat \subseteq chat', ProbedFits(o)', ToDoFits(o)', NarrowFits',
         alone' = alone, o \in alone => AloneFits(o)',
         opener[o] \in {"index", "chat"} \/ opener'[o] \notin {"index", "chat"},
         opener[o] = "chat" \/ chat' = chat
  PROVE  ChatInv'
<1>1. ASSUME NEW q \in Openers, q # o PROVE ProbedFits(q)' /\ ToDoFits(q)'
  <2>1. script'[q] = script[q] /\ opener'[q] = opener[q] /\ probed'[q] = probed[q]
    BY <1>1 DEF ChatInv
  <2> QED BY <2>1, ToDoStays, ProbedStays DEF ChatInv
<1>2. ASSUME NEW q \in alone, q # o PROVE AloneFits(q)'
  <2>1. opener'[q] = opener[q] /\ probed'[q] = probed[q] /\ AloneFits(q) /\ q \in Openers
    BY <1>2 DEF ChatInv
  <2>2. opener'[q] \in {"index", "chat"} =>
          \A r \in Openers : r # q => opener'[r] \notin {"index", "chat"}
    BY <1>2, <2>1 DEF AloneFits
  <2>3. probed'[q] \cap chat' = {}
    <3>1. CASE chat' = chat
      BY <2>1, <3>1 DEF AloneFits
    <3>2. CASE opener[o] = "chat"
      <4>1. opener[q] # "chat"
        BY <1>2, <2>1, <3>2 DEF AloneFits
      <4>2. probed[q] = {}
        BY <2>1, <4>1 DEF ChatInv, ProbedFits
      <4> QED BY <2>1, <4>2
    <3> QED BY <3>1, <3>2
  <2> QED BY <2>1, <2>2, <2>3 DEF AloneFits
<1>3. probed' = [q \in Openers |-> probed'[q]]
  BY DEF ChatInv
<1>4. \A q \in Openers : ProbedFits(q)' /\ ToDoFits(q)'
  BY <1>1
<1>5. \A q \in alone' : AloneFits(q)'
  BY <1>2
<1>6. alone' \subseteq Openers
  BY DEF ChatInv
<1> QED BY <1>3, <1>4, <1>5, <1>6 DEF ChatInv

(* Opening: who opens beside others is not alone any more, nor are they.   *)
LEMMA OpeningKeepsChat ==
  ASSUME SchemaInv, NEW o \in Openers, OpenIndex(o) \/ OpenChat(o)
  PROVE  ChatInv'
<1>0. /\ opener = [q \in Openers |-> opener[q]] /\ script = [q \in Openers |-> script[q]]
      /\ probed = [q \in Openers |-> probed[q]] /\ ChatInv
  BY DEF SchemaInv, IndexInv, ChatInv
<1>1. /\ opener[o] = "out" /\ UNCHANGED <<chat, memory, probed>> /\ Begins(o)
      /\ opener'[o] \in {"index", "chat"} /\ opener' = [opener EXCEPT ![o] = opener'[o]]
      /\ script' = [script EXCEPT ![o] = script'[o]]
      /\ opener'[o] = "chat" => script'[o] = Migrations
  BY <1>0 DEF OpenIndex, OpenChat
<1>2. probed[o] = {} /\ probed'[o] = {}
  BY <1>0, <1>1 DEF ChatInv, ProbedFits
<1>3. ASSUME NEW q \in Openers PROVE ProbedFits(q)'
  <2>1. CASE q = o
    BY <1>2, <2>1 DEF ProbedFits
  <2>2. CASE q # o
    BY <1>0, <1>1, <2>2, ProbedStays DEF ChatInv
  <2> QED BY <2>1, <2>2
<1>4. ASSUME NEW q \in Openers PROVE ToDoFits(q)'
  <2>1. CASE q = o
    BY <1>1, <2>1, MigrationsDoAll DEF ToDoFits, ToDo
  <2>2. CASE q # o
    BY <1>0, <1>1, <2>2, ToDoStays DEF ChatInv
  <2> QED BY <2>1, <2>2
<1>5. ASSUME NEW q \in alone' PROVE q \in Openers /\ AloneFits(q)'
  <2>1. q \in Openers /\ (q = o \/ (q \in alone /\ AloneFits(q)))
    BY <1>0, <1>1 DEF Begins, ChatInv
  <2>2. \/ \A r \in Openers : r # o => opener[r] \notin {"index", "chat"}
        \/ q # o /\ opener[q] \notin {"index", "chat"}
    BY <1>1, <2>1 DEF Begins, Others
  <2>3. CASE q = o
    BY <1>0, <1>1, <1>2, <2>2, <2>3 DEF AloneFits
  <2>4. CASE q # o
    <3>1. opener'[q] = opener[q] /\ opener[q] \notin {"index", "chat"}
      BY <1>0, <1>1, <2>1, <2>2, <2>4
    <3> QED BY <1>1, <2>1, <2>4, <3>1 DEF AloneFits
  <2> QED BY <2>3, <2>4
<1>6. NarrowFits'
  BY <1>0, <1>1 DEF ChatInv, NarrowFits
<1>7. probed' = [q \in Openers |-> probed'[q]]
  BY <1>0, <1>1
<1> QED BY <1>3, <1>4, <1>5, <1>6, <1>7 DEF ChatInv

LEMMA ChatStepKeepsChat ==
  ASSUME SchemaInv, NEW o \in Openers,
         Idempotent(o) \/ Probe(o) \/ AddColumn(o) \/ Widen(o)
  PROVE  ChatInv'
<1> DEFINE h == Head(script[o])
<1>0. /\ opener = [q \in Openers |-> opener[q]] /\ script = [q \in Openers |-> script[q]]
      /\ probed = [q \in Openers |-> probed[q]] /\ ChatInv
      /\ ProbedFits(o) /\ ToDoFits(o) /\ NarrowFits /\ (o \in alone => AloneFits(o))
  BY DEF SchemaInv, IndexInv, ChatInv
<1>1. /\ opener[o] = "chat" /\ script[o] # <<>> /\ alone' = alone
      /\ probed[o] \in {{}, {h}}
  BY <1>0 DEF Idempotent, Probe, AddColumn, Widen, ProbedFits
<1>2. CASE /\ UNCHANGED <<opener, chat, memory, script>> /\ h \notin chat
           /\ h \in Columns \cup {"terminal"}
           /\ probed' = [probed EXCEPT ![o] = {h}]
  <2>1. probed'[o] = {h} /\ opener' = [opener EXCEPT ![o] = opener'[o]]
        /\ script' = [script EXCEPT ![o] = script'[o]]
    BY <1>0, <1>2
  <2>2. ProbedFits(o)'
    BY <1>1, <1>2, <2>1 DEF ProbedFits
  <2>3. ToDoFits(o)'
    BY <1>0, <1>2, ToDoStays
  <2>4. NarrowFits' /\ (o \in alone => AloneFits(o)')
    BY <1>0, <1>2, <2>1, ZenonT(60) DEF NarrowFits, AloneFits
  <2> QED BY <1>0, <1>1, <1>2, <2>1, <2>2, <2>3, <2>4, OthersKeepChat
<1>3. CASE /\ opener' = [opener EXCEPT ![o] = "noChat"] /\ script' = [script EXCEPT ![o] = <<>>]
           /\ probed' = [probed EXCEPT ![o] = {}] /\ o \notin alone /\ UNCHANGED <<chat, memory>>
  <2>1. opener'[o] = "noChat" /\ script'[o] = <<>> /\ probed'[o] = {}
    BY <1>0, <1>3
  <2>2. ProbedFits(o)' /\ ToDoFits(o)' /\ NarrowFits'
    BY <1>0, <1>3, <2>1 DEF ProbedFits, ToDoFits, NarrowFits
  <2> QED BY <1>0, <1>1, <1>3, <2>1, <2>2, OthersKeepChat
<1>4. CASE /\ UNCHANGED opener /\ script' = [script EXCEPT ![o] = Tail(script[o])]
           /\ chat' = chat \cup {h} /\ probed' = [probed EXCEPT ![o] = {}]
           /\ "terminal" \notin chat' => UNCHANGED memory
  <2>1. /\ opener' = [opener EXCEPT ![o] = opener'[o]] /\ script'[o] = Tail(script[o]) /\ probed'[o] = {}
    BY <1>0, <1>4
  <2>2. ToDoFits(o)'
    BY <1>0, <1>1, <1>4, <2>1, HeadDone
  <2>3. ProbedFits(o)' /\ NarrowFits' /\ (o \in alone => AloneFits(o)')
    BY <1>0, <1>4, <2>1 DEF ProbedFits, NarrowFits, AloneFits
  <2> QED BY <1>0, <1>1, <1>4, <2>1, <2>2, <2>3, OthersKeepChat
<1>5. CASE Idempotent(o)
  <2>1. probed[o] = {}
    BY <1>0, <1>5 DEF Idempotent, ProbedFits, Tables, Whole, Columns
  <2>2. probed' = [probed EXCEPT ![o] = {}]
    BY <1>0, <1>5, <2>1 DEF Idempotent
  <2> QED BY <1>4, <1>5, <2>2 DEF Idempotent, Next1
<1>6. CASE Probe(o)
  <2>1. CASE h \notin chat
    BY <1>2, <1>6, <2>1 DEF Probe, Missing
  <2>2. CASE h \in chat
    <3>1. chat = chat \cup {h} /\ probed = [probed EXCEPT ![o] = {}]
      BY <1>0, <1>6, <2>2 DEF Probe
    <3> QED BY <1>4, <1>6, <2>2, <3>1 DEF Probe, Missing, Next1
  <2> QED BY <2>1, <2>2
<1>7. CASE AddColumn(o)
  <2>1. probed[o] = {h}
    BY <1>1, <1>7 DEF AddColumn
  <2>2. CASE probed[o] \subseteq chat
    <3>1. o \notin alone
      BY <1>0, <2>1, <2>2 DEF AloneFits
    <3> QED BY <1>3, <1>7, <2>2, <3>1 DEF AddColumn
  <2>3. CASE ~(probed[o] \subseteq chat)
    BY <1>4, <1>7, <2>1, <2>3 DEF AddColumn, Next1
  <2> QED BY <2>2, <2>3
<1>8. CASE Widen(o)
  <2>1. h = "terminal" /\ probed[o] = {h}
    BY <1>1, <1>8 DEF Widen
  <2>2. CASE Cardinality(memory) > 1
    <3>1. ASSUME o \in alone PROVE FALSE
      <4>1. memory \subseteq {""}
        BY <1>0, <2>1, <3>1 DEF AloneFits, NarrowFits
      <4>2. memory = {} \/ memory = {""}
        BY <4>1
      <4>3. Cardinality(memory) = 0 \/ Cardinality(memory) = 1
        BY <4>2, FS_EmptySet, FS_Singleton
      <4> QED BY <2>2, <4>3
    <3> QED BY <1>3, <1>8, <2>2, <3>1 DEF Widen
  <2>3. CASE ~(Cardinality(memory) > 1)
    BY <1>4, <1>8, <2>1, <2>3 DEF Widen, Next1
  <2> QED BY <2>2, <2>3
<1> QED BY <1>5, <1>6, <1>7, <1>8

LEMMA ChatKeeps ==
  ASSUME SchemaInv, SchemaNext \/ UNCHANGED schemaVars
  PROVE  ChatInv'
<1>0. /\ opener = [q \in Openers |-> opener[q]] /\ script = [q \in Openers |-> script[q]]
      /\ probed = [q \in Openers |-> probed[q]] /\ ChatInv
      /\ \A o \in Openers : ProbedFits(o) /\ ToDoFits(o) /\ (o \in alone => AloneFits(o))
      /\ NarrowFits
  BY DEF SchemaInv, IndexInv, ChatInv
<1>1. CASE UNCHANGED schemaVars
  <2>1. UNCHANGED <<opener, script, probed, chat, memory, alone>>
    BY <1>1 DEF schemaVars
  <2>2. NarrowFits' /\ \A o \in alone' : AloneFits(o)'
    BY <1>0, <2>1 DEF ChatInv, NarrowFits, AloneFits
  <2>3. \A o \in Openers : ProbedFits(o)' /\ ToDoFits(o)'
    BY <1>0, <2>1, ToDoStays, ProbedStays
  <2> QED BY <1>0, <2>1, <2>2, <2>3 DEF ChatInv
<1>2. ASSUME NEW o \in Openers, IndexStep(o) \/ ValidateIndex(o) \/ ChatIsOpen(o) PROVE ChatInv'
  <2>1. /\ UNCHANGED <<chat, memory, probed, alone>> /\ opener[o] \in {"index", "chat"}
        /\ opener' = [opener EXCEPT ![o] = opener'[o]] /\ opener'[o] \in {"index", "open", "noIndex"}
        /\ opener'[o] \in {opener[o], "open", "noIndex"}
        /\ script' = [script EXCEPT ![o] = script'[o]] /\ probed[o] = {}
    BY <1>0, <1>2 DEF IndexStep, ValidateIndex, ChatIsOpen, ProbedFits
  <2>2. ProbedFits(o)' /\ ToDoFits(o)' /\ NarrowFits' /\ (o \in alone => AloneFits(o)')
    <3>1. ProbedFits(o)' /\ ToDoFits(o)' /\ NarrowFits'
      BY <1>0, <2>1 DEF ProbedFits, ToDoFits, NarrowFits
    <3>2. o \in alone => AloneFits(o)'
      BY <1>0, <2>1 DEF AloneFits
    <3> QED BY <3>1, <3>2
  <2>3. probed' = [probed EXCEPT ![o] = probed'[o]]
    BY <1>0, <2>1
  <2> QED BY <1>0, <2>1, <2>2, <2>3, OthersKeepChat
<1>3. ASSUME NEW o \in Openers,
             (\E t \in Terminals : Choose(o, t)) \/ ChooseForDirectory(o) \/ Close(o) \/ Kill(o)
      PROVE  ChatInv'
  <2>1. /\ UNCHANGED <<chat, alone>> /\ ("terminal" \notin chat => memory' \subseteq {""})
        /\ opener' = [opener EXCEPT ![o] = opener'[o]]
        /\ opener'[o] \in {"out", "open", "naming"}
        /\ script' = [script EXCEPT ![o] = script'[o]]
        /\ probed' = [probed EXCEPT ![o] = {}]
    BY <1>0, <1>3 DEF Choose, ChooseForDirectory, Close, Kill, ProbedFits, NarrowFits
  <2>2. probed'[o] = {}
    BY <1>0, <2>1
  <2>3. ProbedFits(o)' /\ ToDoFits(o)' /\ NarrowFits'
    BY <2>1, <2>2 DEF ProbedFits, ToDoFits, NarrowFits
  <2>4. o \in alone => AloneFits(o)'
    BY <1>0, <2>1, <2>2 DEF AloneFits
  <2> QED BY <1>0, <2>1, <2>2, <2>3, <2>4, OthersKeepChat
<1> QED BY <1>1, <1>2, <1>3, OpeningKeepsChat, ChatStepKeepsChat DEF SchemaNext

-----------------------------------------------------------------------------
(* The files of the journals.  A folder's journal may be moved under its   *)
(* repository while it has one, under a key it shares while that has no    *)
(* file, and aside when the folder is shared; any other file stays.        *)
Settled(key) ==
    /\ ~Moves(key)
    /\ key \in Folders /\ shares[key] # NoBox => fileOf[shares[key]] # NoBox

(* The file of the key is there, opens, and holds the texts.               *)
Holds(key, texts) ==
    /\ fileOf[key] # NoBox
    /\ Labelled(key)
    /\ texts \subseteq held[fileOf[key]]

(* Nobody shares what is shared, but for keys that move.                   *)
Unshared(key) == key \in Folders => shares[key] = NoBox

NoChain ==
    \A f \in Folders : shares[f] # NoBox /\ ~Moves(shares[f]) => Unshared(shares[f])

(* A share under way: the folder shares nothing yet, nobody shares the     *)
(* folder, and into is the file of the key, with what was merged.          *)
SharingFits ==
    /\ share.own = ProjectKey(share.folder) /\ share.own # share.key
    /\ shares[share.folder] = NoBox
    /\ ~Moves(share.folder) => \A f \in Folders : shares[f] # share.folder
    /\ share.into \in 1 .. boxes
    /\ share.step # "merge" => share.had \subseteq held[share.into]
    /\ ~Moves(share.key) =>
         /\ Unshared(share.key)
         /\ fileOf[share.key] = share.into /\ label[share.into] = share.key

(* An unshare under way: the copy is the folder's own and stays so, as the *)
(* row still leads to the journal that was shared.                         *)
UnsharingFits ==
    LET key == shares[share.folder]
        own == ProjectKey(share.folder)
    IN  /\ key # NoBox
        /\ share.had = {} \/ Moves(key) \/ (Holds(key, {}) /\ Unshared(key) /\ Holds(own, share.had))

(* A command that is done: the folder reads a file that stays.             *)
DoneFits ==
    LET key == ReadKey(share.folder)
    IN  share.had = {} \/ (~Moves(key) /\ Unshared(key) /\ Holds(key, share.had))

Sharings ==
    [kind : {"share"}, step : {"merge", "retire", "record"}, with : Folders, folder : Folders,
     key : Keys, own : Keys, into : BoxNumbers, had : SUBSET Texts]

Unsharings == [kind : {"unshare"}, step : {"record"}, folder : Folders, had : SUBSET Texts]

Dones == [kind : {"done"}, folder : Folders, had : SUBSET Texts]

FilesTypes ==
    /\ boxes \in Nat /\ boxes <= MaxBoxes
    /\ fileOf \in [Keys -> (1 .. boxes) \cup {NoBox}]
    /\ held \in [BoxNumbers -> SUBSET Texts]
    /\ label \in [BoxNumbers -> Keys \cup {NoBox}]
    /\ shares \in [Folders -> Keys \cup {NoBox}]
    /\ scribe \in [Scribes -> {Idle} \cup [kind : {"add"}, box : 1 .. boxes, text : Texts]]
    /\ share \in {Idle} \cup Sharings \cup Unsharings \cup Dones

FilesInv ==
    /\ FilesTypes
    /\ NoChain
    /\ share.kind = "share" => SharingFits
    /\ share.kind = "unshare" => UnsharingFits
    /\ share.kind = "done" => DoneFits

LEMMA FilesInitInv == FilesInit => FilesInv
<1> SUFFICES ASSUME FilesInit PROVE FilesInv
  OBVIOUS
<1> USE JournalFilesAssumption DEF FilesInit
<1>1. FilesTypes
  BY DEF FilesTypes, Idle, Keys, BoxNumbers
<1>2. NoChain
  BY DEF NoChain
<1> QED BY <1>1, <1>2 DEF FilesInv, Idle

(* A folder's own key, and the key it writes into, are keys.               *)
LEMMA KeysAreKeys ==
  ASSUME FilesTypes, NEW f \in Folders
  PROVE  /\ f \in Keys /\ ProjectKey(f) \in Keys
         /\ ResolvedKey(f) \in Keys /\ ReadKey(f) \in Keys
         /\ f # NoBox /\ ProjectKey(f) # NoBox
         /\ ~Moves(ProjectKey(f))
         /\ ProjectKey(f) \in Folders => ProjectKey(f) = f
         /\ ~Moves(f) => ProjectKey(f) = f
BY JournalFilesAssumption DEF FilesTypes, Keys, ProjectKey, ResolvedKey, ReadKey, Moves

(* What opening a journal yields: the key's file, labelled for it.         *)
LEMMA OpenedFits ==
  ASSUME FilesTypes, NEW key \in Keys, NEW f \in Keys, NEW o \in OpenedBox(key, f)
  PROVE  /\ o.made \in Nat /\ boxes <= o.made /\ o.made <= MaxBoxes
         /\ o.files \in [Keys -> (1 .. o.made) \cup {NoBox}]
         /\ o.labels \in [BoxNumbers -> Keys \cup {NoBox}]
         /\ o.box \in 1 .. o.made
         /\ o.files[key] = o.box /\ o.labels[o.box] = key
<1> USE JournalFilesAssumption DEF FilesTypes, BoxNumbers
<1>1. CASE Adopts(key, f)
  <2>1. fileOf[f] \in 1 .. boxes
    BY <1>1 DEF Adopts
  <2>2. o = [files |-> [fileOf EXCEPT ![key] = fileOf[f], ![f] = NoBox],
             labels |-> [label EXCEPT ![fileOf[f]] = key], box |-> fileOf[f], made |-> boxes]
    BY <1>1 DEF OpenedBox
  <2>3. key # f
    BY <1>1 DEF Adopts
  <2> QED BY <2>1, <2>2, <2>3
<1>2. CASE ~Adopts(key, f) /\ fileOf[key] = NoBox
  <2>1. o = [files |-> [fileOf EXCEPT ![key] = boxes + 1],
             labels |-> [label EXCEPT ![boxes + 1] = key], box |-> boxes + 1, made |-> boxes + 1]
        /\ boxes + 1 \in 1 .. MaxBoxes
    BY <1>2 DEF OpenedBox
  <2>2. 1 .. boxes \subseteq 1 .. boxes + 1
    OBVIOUS
  <2>3. o.files \in [Keys -> (1 .. (boxes + 1)) \cup {NoBox}] /\ o.files[key] = boxes + 1
    BY <2>1, <2>2
  <2>4. o.labels \in [BoxNumbers -> Keys \cup {NoBox}] /\ o.labels[boxes + 1] = key
    BY <2>1
  <2> QED BY <2>1, <2>3, <2>4
<1>3. CASE ~Adopts(key, f) /\ fileOf[key] # NoBox
  <2>1. o = [files |-> fileOf, labels |-> label, box |-> fileOf[key], made |-> boxes] /\ Labelled(key)
    BY <1>3 DEF OpenedBox
  <2> QED BY <1>3, <2>1 DEF Labelled
<1> QED BY <1>1, <1>2, <1>3

(* Opening takes no settled key's file.                                    *)
LEMMA OpeningSpares ==
  ASSUME FilesTypes, NEW key \in Keys, NEW f \in Keys, NEW o \in OpenedBox(key, f),
         key = f \/ (f \in Folders /\ key \in {ResolvedKey(f), ProjectKey(f)}),
         NEW k \in Keys, Settled(k), fileOf[k] # NoBox, Labelled(k)
  PROVE  o.files[k] = fileOf[k] /\ o.labels[fileOf[k]] = k
<1> USE JournalFilesAssumption DEF FilesTypes, BoxNumbers, Labelled
<1>1. CASE Adopts(key, f)
  <2>1. f # k
    BY <1>1, KeysAreKeys DEF Adopts, Settled, ResolvedKey
  <2>2. fileOf[k] # fileOf[f] /\ k # key
    BY <1>1, <2>1 DEF Adopts
  <2>3. o = [files |-> [fileOf EXCEPT ![key] = fileOf[f], ![f] = NoBox],
             labels |-> [label EXCEPT ![fileOf[f]] = key], box |-> fileOf[f], made |-> boxes]
    BY <1>1 DEF OpenedBox
  <2> QED BY <2>1, <2>2, <2>3
<1>2. CASE ~Adopts(key, f) /\ fileOf[key] = NoBox
  <2>1. o = [files |-> [fileOf EXCEPT ![key] = boxes + 1],
             labels |-> [label EXCEPT ![boxes + 1] = key], box |-> boxes + 1, made |-> boxes + 1]
    BY <1>2 DEF OpenedBox
  <2>2. fileOf[k] # boxes + 1 /\ k # key
    BY <1>2
  <2> QED BY <2>1, <2>2
<1>3. CASE ~Adopts(key, f) /\ fileOf[key] # NoBox
  BY <1>3 DEF OpenedBox
<1> QED BY <1>1, <1>2, <1>3

(* A step keeps the settled files and takes no text away.                  *)
Spares ==
    /\ boxes <= boxes'
    /\ \A k \in Keys : Settled(k) /\ fileOf[k] # NoBox /\ Labelled(k)
         => fileOf'[k] = fileOf[k] /\ label'[fileOf[k]] = k
    /\ \A b \in 1 .. boxes : held[b] \subseteq held'[b]

LEMMA SparedHolds ==
  ASSUME FilesTypes, Spares, NEW k \in Keys, NEW T, Settled(k), Holds(k, T)
  PROVE  fileOf'[k] = fileOf[k] /\ Holds(k, T)'
BY JournalFilesAssumption DEF FilesTypes, Spares, Holds, Labelled

(* What a settled command did outlasts the steps of others.                *)
LEMMA OthersKeepFiles ==
  ASSUME FilesInv, FilesTypes', Spares, UNCHANGED <<shares, share>>
  PROVE  FilesInv'
<1> USE JournalFilesAssumption
<1>1. NoChain'
  BY DEF FilesInv, NoChain, Unshared
<1>2. ASSUME share.kind = "share" PROVE SharingFits'
  <2>1. SharingFits /\ share \in Sharings
    BY <1>2 DEF FilesInv, FilesTypes, Idle, Unsharings, Dones
  <2>2. ASSUME ~Moves(share.key)
        PROVE  fileOf'[share.key] = share.into /\ label'[share.into] = share.key
    BY <2>1, <2>2 DEF SharingFits, Sharings, Spares, Settled, Unshared, Labelled, FilesInv, FilesTypes
  <2>3. share.into \in 1 .. boxes' /\ held[share.into] \subseteq held'[share.into]
    BY <2>1 DEF SharingFits, Spares, FilesTypes, FilesInv
  <2> QED BY <2>1, <2>2, <2>3 DEF SharingFits, Unshared
<1>3. ASSUME share.kind = "unshare" PROVE UnsharingFits'
  <2> DEFINE key == shares[share.folder]
             own == ProjectKey(share.folder)
  <2>1. UnsharingFits /\ share.folder \in Folders /\ key \in Keys
    BY <1>3 DEF FilesInv, FilesTypes, Idle, Sharings, Unsharings, Dones, UnsharingFits
  <2>2. CASE share.had = {} \/ Moves(key)
    BY <2>1, <2>2 DEF UnsharingFits
  <2>3. CASE ~Moves(key) /\ share.had # {}
    <3>1. Holds(key, {}) /\ Unshared(key) /\ Holds(own, share.had)
      BY <2>1, <2>3 DEF UnsharingFits
    <3>2. Settled(key)
      BY <2>3, <3>1 DEF Settled, Unshared
    <3>3. Settled(own) /\ own \in Keys
      BY <2>1, <3>1, KeysAreKeys DEF Settled, Holds, FilesInv
    <3>4. Holds(key, {})' /\ Holds(own, share.had)'
      BY <2>1, <3>1, <3>2, <3>3, SparedHolds DEF FilesInv
    <3> QED BY <2>1, <3>1, <3>4 DEF UnsharingFits, Unshared
  <2> QED BY <2>2, <2>3
<1>4. ASSUME share.kind = "done" PROVE DoneFits'
  <2>1. DoneFits /\ share.folder \in Folders
    BY <1>4 DEF FilesInv, FilesTypes, Idle, Sharings, Unsharings, Dones
  <2> PICK key \in Keys : key = ReadKey(share.folder)
    BY <2>1, KeysAreKeys DEF FilesInv
  <2>2. CASE share.had = {}
    BY <2>2 DEF DoneFits
  <2>3. CASE share.had # {}
    <3>1. ~Moves(key) /\ Unshared(key) /\ Holds(key, share.had)
      BY <2>1, <2>3 DEF DoneFits
    <3>2. Settled(key)
      BY <3>1 DEF Settled, Unshared
    <3>3. fileOf'[key] = fileOf[key] /\ Holds(key, share.had)'
      BY <2>1, <3>1, <3>2, SparedHolds DEF FilesInv
    <3>4. ReadKey(share.folder)' = key
      BY <2>1, <3>1, <3>3, KeysAreKeys DEF ReadKey, Holds, FilesInv
    <3> QED BY <2>1, <3>1, <3>3, <3>4 DEF DoneFits, Unshared
  <2> QED BY <2>2, <2>3
<1> QED BY <1>1, <1>2, <1>3, <1>4 DEF FilesInv

(* Steps beside a command, and one that ends.                              *)
LEMMA WritingKeepsFiles ==
  ASSUME FilesInv,
         \/ \E w \in Scribes :
              \/ \E f \in Folders, t \in Texts : BeginAdd(w, f, t) \/ BeginImport(w, f, t)
              \/ FinishAdd(w)
         \/ \E f \in Folders : AdoptCut(f)
  PROVE  FilesInv'
<1> USE JournalFilesAssumption
<1>0. FilesTypes
  BY DEF FilesInv
<1>1. ASSUME NEW w \in Scribes, NEW f \in Folders, NEW t \in Texts, NEW key \in Keys,
             key \in {ResolvedKey(f), ProjectKey(f)}, OpenFor(key, f, w, t)
      PROVE  FilesInv'
  <2> USE <1>1 DEF OpenFor
  <2>1. PICK o \in OpenedBox(key, f) :
               /\ fileOf' = o.files /\ label' = o.labels /\ boxes' = o.made
               /\ scribe' = [scribe EXCEPT ![w] = [kind |-> "add", box |-> o.box, text |-> t]]
    OBVIOUS
  <2>2. f \in Keys
    BY <1>0, KeysAreKeys
  <2>3. /\ boxes' \in Nat /\ boxes <= boxes' /\ boxes' <= MaxBoxes
        /\ fileOf' \in [Keys -> (1 .. boxes') \cup {NoBox}]
        /\ label' \in [BoxNumbers -> Keys \cup {NoBox}]
        /\ o.box \in 1 .. boxes'
    BY <1>0, <2>1, <2>2, OpenedFits
  <2>4. scribe' \in [Scribes -> {Idle} \cup [kind : {"add"}, box : 1 .. boxes', text : Texts]]
    <3>1. 1 .. boxes \subseteq 1 .. boxes'
      BY <1>0, <2>3 DEF FilesTypes
    <3>2. [kind |-> "add", box |-> o.box, text |-> t] \in [kind : {"add"}, box : 1 .. boxes', text : Texts]
      BY <2>3
    <3>3. \A x \in Scribes : scribe[x] \in {Idle} \cup [kind : {"add"}, box : 1 .. boxes', text : Texts]
      BY <1>0, <3>1 DEF FilesTypes
    <3> QED BY <1>0, <2>1, <3>2, <3>3 DEF FilesTypes
  <2>5. FilesTypes'
    BY <1>0, <2>3, <2>4 DEF FilesTypes
  <2>6. Spares
    BY <1>0, <2>1, <2>2, <2>3, OpeningSpares DEF Spares
  <2> QED BY <2>5, <2>6, OthersKeepFiles
<1>2. ASSUME NEW w \in Scribes, FinishAdd(w) PROVE FilesInv'
  <2>1. scribe[w].box \in BoxNumbers /\ scribe[w].text \in Texts
    BY <1>0, <1>2 DEF FinishAdd, FilesTypes, BoxNumbers
  <2>2. FilesTypes'
    BY <1>0, <1>2, <2>1 DEF FinishAdd, FilesTypes
  <2>3. Spares
    BY <1>0, <1>2, <2>1 DEF FinishAdd, FilesTypes, Spares, BoxNumbers, Labelled
  <2> QED BY <1>2, <2>2, <2>3, OthersKeepFiles DEF FinishAdd
<1>3. ASSUME NEW f \in Folders, AdoptCut(f) PROVE FilesInv'
  <2> USE <1>3 DEF AdoptCut
  <2>1. f \in Keys /\ ResolvedKey(f) \in Keys
    BY <1>0, KeysAreKeys
  <2>2. FilesTypes'
    BY <1>0, <2>1 DEF FilesTypes
  <2>3. ASSUME NEW k \in Keys, Settled(k), fileOf[k] # NoBox, Labelled(k)
        PROVE  label'[fileOf[k]] = k
    <3>1. k # f
      BY <1>0, <2>3, KeysAreKeys DEF Adopts, Settled, ResolvedKey
    <3>2. fileOf[k] # fileOf[f]
      BY <2>3, <3>1 DEF Adopts, Labelled
    <3> QED BY <1>0, <2>3, <3>2 DEF FilesTypes, Labelled
  <2>4. Spares
    BY <1>0, <2>3 DEF Spares, FilesTypes
  <2> QED BY <2>2, <2>4, OthersKeepFiles
<1>4. ASSUME NEW f \in Folders PROVE ResolvedKey(f) \in Keys /\ ProjectKey(f) \in Keys
  BY <1>0, KeysAreKeys
<1> QED BY <1>1, <1>2, <1>3, <1>4 DEF BeginAdd, BeginImport

(* The steps of a share.                                                   *)
LEMMA SharingKeepsFiles ==
  ASSUME ~Chains, FilesInv,
         \/ \E f, g \in Folders : \E key \in {ResolvedKey(f), ReadKey(f)} : BeginShare(f, g, key)
         \/ Merge \/ Retire \/ Record
  PROVE  FilesInv'
<1> USE JournalFilesAssumption
<1>0. FilesTypes /\ NoChain
  BY DEF FilesInv
<1>1. ASSUME NEW f \in Folders, NEW g \in Folders, NEW key \in {ResolvedKey(f), ReadKey(f)},
             BeginShare(f, g, key)
      PROVE  FilesInv'
  <2> USE <1>1 DEF BeginShare
  <2>1. key \in Keys /\ ProjectKey(g) \in Keys
    BY <1>0, KeysAreKeys
  <2>2. PICK o \in OpenedBox(key, key) :
               /\ fileOf' = o.files /\ label' = o.labels /\ boxes' = o.made
               /\ share' \in {Idle, [kind |-> "share", step |-> "merge", with |-> f, folder |-> g, key |-> key,
                        own |-> ProjectKey(g), into |-> o.box,
                        had |-> IF fileOf[ProjectKey(g)] = NoBox THEN {} ELSE held[fileOf[ProjectKey(g)]]]}
    OBVIOUS
  <2>3. /\ boxes' \in Nat /\ boxes <= boxes' /\ boxes' <= MaxBoxes
        /\ fileOf' \in [Keys -> (1 .. boxes') \cup {NoBox}]
        /\ label' \in [BoxNumbers -> Keys \cup {NoBox}]
        /\ o.box \in 1 .. boxes' /\ fileOf'[key] = o.box /\ label'[o.box] = key
    BY <1>0, <2>1, <2>2, OpenedFits
  <2>4. /\ share' \in {Idle} \cup Sharings
        /\ share' # Idle => /\ share'.own = ProjectKey(g) /\ share'.folder = g /\ share'.key = key
                            /\ share'.into = o.box /\ share'.step = "merge"
    <3>1. (IF fileOf[ProjectKey(g)] = NoBox THEN {} ELSE held[fileOf[ProjectKey(g)]]) \in SUBSET Texts
      BY <1>0, <2>1 DEF FilesTypes, BoxNumbers
    <3>2. o.box \in BoxNumbers
      BY <2>3 DEF BoxNumbers
    <3> QED BY <2>1, <2>2, <3>1, <3>2 DEF Sharings
  <2>5. FilesTypes'
    <3>1. 1 .. boxes \subseteq 1 .. boxes'
      BY <1>0, <2>3 DEF FilesTypes
    <3>2. scribe \in [Scribes -> {Idle} \cup [kind : {"add"}, box : 1 .. boxes', text : Texts]]
      BY <1>0, <3>1 DEF FilesTypes
    <3> QED BY <1>0, <2>3, <2>4, <3>2 DEF FilesTypes
  <2>6. ~Moves(key) => Unshared(key)
    BY <1>0, KeysAreKeys DEF ResolvedKey, ReadKey, Unshared
  <2>7. share' # Idle => SharingFits'
    <3>1. ASSUME ~Moves(g) PROVE \A h \in Folders : shares[h] # g
      BY <1>0, <3>1, KeysAreKeys
    <3> QED BY <2>3, <2>4, <2>6, <3>1 DEF SharingFits, Unshared
  <2>8. share'.kind \in {"idle", "share"} /\ (share'.kind = "share" => share' # Idle)
    BY <2>4 DEF Idle, Sharings
  <2> QED BY <1>0, <2>5, <2>7, <2>8 DEF FilesInv, NoChain, Unshared
<1>2. ASSUME share.kind = "share" PROVE SharingFits /\ share \in Sharings
  BY <1>0, <1>2 DEF FilesInv, FilesTypes, Idle, Unsharings, Dones
<1>3. ASSUME Merge PROVE FilesInv'
  <2> USE <1>3 DEF Merge, ShareAt
  <2>1. SharingFits /\ share \in Sharings
    BY <1>2
  <2>2. share' \in Sharings /\ share' = [share EXCEPT !.step = "retire"]
    BY <2>1 DEF Sharings
  <2>3. FilesTypes' /\ held'[share.into] = held[share.into] \cup share.had
    BY <1>0, <2>1, <2>2 DEF FilesTypes, Sharings, BoxNumbers
  <2>4. SharingFits'
    BY <2>1, <2>2, <2>3 DEF SharingFits, Sharings, Unshared
  <2> QED BY <1>0, <2>2, <2>3, <2>4 DEF FilesInv, NoChain, Unshared, Sharings
<1>4. ASSUME Retire PROVE FilesInv'
  <2> USE <1>4 DEF Retire, ShareAt
  <2>1. SharingFits /\ share \in Sharings
    BY <1>2
  <2>2. share' \in Sharings /\ share' = [share EXCEPT !.step = "record"]
    BY <2>1 DEF Sharings
  <2>3. FilesTypes'
    BY <1>0, <2>1, <2>2 DEF FilesTypes, Sharings
  <2>4. SharingFits'
    BY <1>0, <2>1, <2>2 DEF SharingFits, Sharings, Unshared, FilesTypes
  <2> QED BY <1>0, <2>2, <2>3, <2>4 DEF FilesInv, NoChain, Unshared, Sharings
<1>5. ASSUME Record PROVE FilesInv'
  <2> USE <1>5 DEF Record, ShareAt
  <2>1. SharingFits /\ share \in Sharings /\ share.step = "record"
    BY <1>2
  <2> PICK g \in Folders, k \in Keys, T \in SUBSET Texts :
              /\ share.folder = g /\ share.key = k
              /\ T = (IF Moves(k) THEN {} ELSE share.had)
    BY <2>1 DEF Sharings
  <2>2. share' \in Dones /\ share'.had = T /\ share'.folder = g
    BY <2>1 DEF Sharings, Dones
  <2>3. FilesTypes'
    BY <1>0, <2>1, <2>2 DEF FilesTypes, Sharings
  <2>4. shares'[g] = k /\ \A f \in Folders : f # g => shares'[f] = shares[f]
    BY <1>0 DEF FilesTypes
  <2>5. ~Moves(k) => Unshared(k)'
    BY <1>0, <2>1, <2>4, KeysAreKeys DEF SharingFits, Unshared
  <2>6. ASSUME NEW f \in Folders, NEW m \in Keys, shares'[f] = m, ~Moves(m)
        PROVE  Unshared(m)'
    <3>1. CASE f = g
      BY <2>4, <2>5, <2>6, <3>1
    <3>2. CASE f # g
      <4>1. shares[f] = m /\ m # NoBox
        BY <2>4, <2>6, <3>2, JournalFilesAssumption DEF Keys
      <4>2. Unshared(m) /\ m # g
        BY <1>0, <2>1, <2>6, <4>1 DEF NoChain, SharingFits
      <4> QED BY <2>4, <4>2 DEF Unshared
    <3> QED BY <3>1, <3>2
  <2>7. NoChain'
    BY <2>3, <2>6 DEF NoChain, FilesTypes
  <2>8. DoneFits'
    <3>1. ReadKey(g)' = k
      BY <2>4 DEF ReadKey, Keys
    <3>2. ASSUME ~Moves(k) PROVE Holds(k, T)'
      BY <1>0, <2>1, <3>2 DEF Holds, Labelled, SharingFits, FilesTypes
    <3> QED BY <2>2, <2>5, <3>1, <3>2 DEF DoneFits
  <2> QED BY <2>2, <2>3, <2>7, <2>8 DEF FilesInv, Dones
<1> QED BY <1>1, <1>3, <1>4, <1>5

(* The steps of an unshare.                                                *)
LEMMA UnsharingKeepsFiles ==
  ASSUME FilesInv, (\E g \in Folders : BeginUnshare(g)) \/ Unrecord
  PROVE  FilesInv'
<1> USE JournalFilesAssumption
<1>0. FilesTypes /\ NoChain
  BY DEF FilesInv
<1>1. ASSUME NEW g \in Folders, BeginUnshare(g) PROVE FilesInv'
  <2> USE <1>1 DEF BeginUnshare
  <2> PICK key \in Keys, own \in Keys, T \in SUBSET Texts :
              /\ key = shares[g] /\ own = ProjectKey(g) /\ T = Reads(g)
              /\ ReadKey(g) = key
    <3>1. Reads(g) \in SUBSET Texts
      BY <1>0, KeysAreKeys DEF Reads, FilesTypes, BoxNumbers
    <3> QED BY <1>0, <3>1, KeysAreKeys DEF FilesTypes, ReadKey
  <2>1. /\ share' = [kind |-> "unshare", step |-> "record", folder |-> g, had |-> T]
        /\ share' \in Unsharings
    BY DEF Unsharings
  <2>2. CASE fileOf[key] = NoBox
    <3>1. T = {} /\ UNCHANGED <<fileOf, held, label, boxes, shares, scribe>>
      BY <2>2 DEF Reads
    <3>2. FilesTypes' /\ NoChain' /\ UnsharingFits'
      BY <1>0, <2>1, <3>1 DEF FilesTypes, NoChain, Unshared, UnsharingFits, Keys
    <3> QED BY <2>1, <3>2 DEF FilesInv
  <2>3. CASE fileOf[key] # NoBox
    <3>1. /\ Labelled(key) /\ fileOf[own] = NoBox /\ boxes + 1 \in BoxNumbers
          /\ boxes' = boxes + 1
          /\ fileOf' = [fileOf EXCEPT ![own] = boxes + 1]
          /\ held' = [held EXCEPT ![boxes + 1] = held[fileOf[key]]]
          /\ label' = [label EXCEPT ![boxes + 1] = own]
          /\ UNCHANGED <<shares, scribe>>
      BY <2>3
    <3>2. T = held[fileOf[key]] /\ fileOf[key] \in 1 .. boxes
      BY <1>0, <2>3, <3>1 DEF Reads, FilesTypes
    <3>3. FilesTypes'
      <4>1. 1 .. boxes \subseteq 1 .. boxes' /\ boxes' \in Nat /\ boxes' <= MaxBoxes
        BY <1>0, <3>1 DEF FilesTypes, BoxNumbers
      <4>2. fileOf' \in [Keys -> (1 .. boxes') \cup {NoBox}]
        BY <1>0, <3>1, <4>1 DEF FilesTypes
      <4>3. held' \in [BoxNumbers -> SUBSET Texts] /\ label' \in [BoxNumbers -> Keys \cup {NoBox}]
        BY <1>0, <3>1, <3>2 DEF FilesTypes
      <4>4. scribe' \in [Scribes -> {Idle} \cup [kind : {"add"}, box : 1 .. boxes', text : Texts]]
        BY <1>0, <3>1, <4>1 DEF FilesTypes
      <4> QED BY <1>0, <2>1, <3>1, <4>1, <4>2, <4>3, <4>4 DEF FilesTypes
    <3>4. NoChain'
      BY <1>0, <3>1 DEF NoChain, Unshared
    <3>5. Holds(own, T)' /\ Holds(key, {})'
      BY <1>0, <2>3, <3>1, <3>2 DEF Holds, Labelled, FilesTypes, BoxNumbers
    <3>6. ~Moves(key) => Unshared(key)'
      BY <1>0, <3>1 DEF NoChain, Unshared, Keys
    <3>7. UnsharingFits'
      BY <2>1, <3>1, <3>5, <3>6 DEF UnsharingFits, Keys
    <3> QED BY <2>1, <3>3, <3>4, <3>7 DEF FilesInv
  <2> QED BY <2>2, <2>3
<1>2. ASSUME Unrecord PROVE FilesInv'
  <2> USE <1>2 DEF Unrecord, ShareAt
  <2>1. UnsharingFits /\ share \in Unsharings
    BY <1>0 DEF FilesInv, FilesTypes, Idle, Sharings, Dones
  <2> PICK g \in Folders, key \in Keys, own \in Keys, T \in SUBSET Texts :
              /\ share.folder = g /\ key = shares[g] /\ own = ProjectKey(g)
              /\ T = (IF Moves(key) THEN {} ELSE share.had)
    <3>1. share.folder \in Folders /\ shares[share.folder] \in Keys /\ share.had \in SUBSET Texts
      BY <1>0, <2>1 DEF UnsharingFits, Unsharings, FilesTypes
    <3> QED BY <1>0, <3>1, KeysAreKeys
  <2>2. share' \in Dones /\ share'.had = T /\ share'.folder = g
    BY DEF Dones
  <2>3. shares' = [shares EXCEPT ![g] = NoBox]
    OBVIOUS
  <2>4. FilesTypes' /\ NoChain'
    BY <1>0, <2>2, <2>3 DEF FilesTypes, NoChain, Unshared
  <2>5. DoneFits'
    <3>1. CASE T = {}
      BY <2>2, <3>1 DEF DoneFits
    <3>2. CASE T # {}
      <4>1. Holds(own, T)
        BY <2>1, <3>2 DEF UnsharingFits
      <4>2. shares'[g] = NoBox
        BY <1>0, <2>3 DEF FilesTypes
      <4>3. ReadKey(g)' = own
        BY <4>1, <4>2 DEF ReadKey, Holds
      <4>4. ~Moves(own) /\ Unshared(own)'
        BY <1>0, <4>2, KeysAreKeys DEF Unshared
      <4>5. Holds(own, T)'
        BY <4>1 DEF Holds, Labelled
      <4> QED BY <2>2, <4>3, <4>4, <4>5 DEF DoneFits
    <3> QED BY <3>1, <3>2
  <2> QED BY <2>2, <2>4, <2>5 DEF FilesInv, Dones
<1> QED BY <1>1, <1>2

LEMMA FilesKeeps ==
  ASSUME ~Chains, FilesInv, FilesNext \/ UNCHANGED filesVars
  PROVE  FilesInv'
<1>0. FilesTypes /\ NoChain
  BY DEF FilesInv
<1>1. CASE UNCHANGED filesVars
  <2>1. FilesTypes' /\ Spares
    BY <1>0, <1>1 DEF filesVars, FilesTypes, Spares, Labelled
  <2> QED BY <1>1, <2>1, OthersKeepFiles DEF filesVars
<1>2. CASE EndCommand \/ FilesRestart
  <2>1. FilesTypes' /\ NoChain'
    BY <1>0, <1>2 DEF EndCommand, FilesRestart, FilesTypes, NoChain, Unshared
  <2>2. share'.kind = "idle"
    BY <1>2 DEF EndCommand, FilesRestart, Idle
  <2> QED BY <2>1, <2>2 DEF FilesInv
<1> QED BY <1>1, <1>2, WritingKeepsFiles, SharingKeepsFiles, UnsharingKeepsFiles DEF FilesNext

(* A share or an unshare that is done has cost its folder nothing.         *)
LEMMA FilesKeepEntries == FilesInv => ShareKeepsEntries
<1> SUFFICES ASSUME FilesInv, share.kind = "done" PROVE share.had \subseteq Reads(share.folder)
  BY DEF ShareKeepsEntries
<1> QED BY DEF FilesInv, DoneFits, Holds, Reads

-----------------------------------------------------------------------------
(* Conversations carried and copied.  A command's own id is minted: the    *)
(* places of that id are touched by it alone.                              *)
Loads ==
    [kind : {"load"}, step : {"session", "history", "transcript", "nick", "journal", "over"},
     folder : Projects, id : Ids, side : SUBSET Side, nick : BOOLEAN]

Clones ==
    [kind : {"clone"}, step : {"session", "history", "transcript", "lines", "over"},
     folder : Projects, id : Commands, side : SUBSET Side, source : Ids]

Dumps == [kind : {"dump"}, step : {"pack", "over"}, folder : Projects, source : Ids]

OtherCommands == [kind : {"none", "claude"}]

TransferTypes ==
    /\ disk \in [Places -> Commands \cup {Nobody}]
    /\ command \in [Commands -> Loads \cup Clones \cup Dumps \cup OtherCommands]
    /\ \A c \in Commands :
         /\ command[c].kind = "load" => command[c].id \in Conversations \cup {c}
         /\ command[c].kind = "clone" => command[c].id = c

(* Whether the command makes a conversation under its own id, and whether  *)
(* it has got past a step.                                                 *)
Copies(c) == command[c].kind \in {"load", "clone"} /\ command[c].id = c

Bare(c) ==
    /\ \A f \in Projects : ~Present(Transcript(f, c)) /\ ~Present(SessionDir(f, c))
    /\ ~Present(HistoryDir(c))

(* The transcript comes after the folders, and each of them when its step  *)
(* is over.                                                                *)
CopyFits(c) ==
    LET f == command[c].folder
        step == command[c].step
        sides == command[c].side
        listed == Present(Transcript(f, c))
    IN  /\ \A g \in Projects : Present(Transcript(g, c)) => g = f
        /\ listed => step \in {"lines", "nick", "journal", "over"}
        /\ "session" \in sides /\ (listed \/ step \in {"history", "transcript"}) => disk[SessionDir(f, c)] = c
        /\ "history" \in sides /\ (listed \/ step = "transcript") => disk[HistoryDir(c)] = c
        /\ command[c].kind = "clone" /\ step = "session" => sides = {}
        /\ command[c].kind = "clone" /\ step = "history" => sides \subseteq {"session"}

Fits(c) == IF Copies(c) THEN CopyFits(c) ELSE Bare(c)

TransferInv == TransferTypes /\ \A c \in Commands : Fits(c)

LEMMA TransferInitInv == TransferInit => TransferInv
<1> SUFFICES ASSUME TransferInit PROVE TransferInv
  OBVIOUS
<1>1. TransferTypes
  BY DEF TransferInit, TransferTypes, Nothing, OtherCommands
<1>2. \A p \in Places : disk[p] = Nobody
  BY DEF TransferInit
<1>3. ASSUME NEW c \in Commands PROVE Bare(c) /\ ~Copies(c)
  BY <1>2 DEF Bare, Present, Copies, TransferInit, Nothing, Places, Ids
<1> QED BY <1>1, <1>3 DEF TransferInv, Fits

(* The places of one id are no others'.                                    *)
LEMMA PlacesApart ==
  ASSUME NEW f \in Projects, NEW c \in Ids
  PROVE  /\ Transcript(f, c) \in Places /\ SessionDir(f, c) \in Places /\ HistoryDir(c) \in Places
         /\ \A g, id : /\ Transcript(g, id) = Transcript(f, c) => g = f /\ id = c
                       /\ SessionDir(g, id) = SessionDir(f, c) => g = f /\ id = c
                       /\ HistoryDir(id) = HistoryDir(c) => id = c
                       /\ Transcript(g, id) # SessionDir(f, c) /\ SessionDir(g, id) # Transcript(f, c)
                       /\ Transcript(g, id) # HistoryDir(c) /\ HistoryDir(id) # Transcript(f, c)
                       /\ SessionDir(g, id) # HistoryDir(c) /\ HistoryDir(id) # SessionDir(f, c)
BY DEF Transcript, SessionDir, HistoryDir, Places

(* A step of one command leaves the places of the other commands' ids.     *)
SparesOthers(d) ==
    /\ \A c \in Commands \ {d} : command'[c] = command[c]
    /\ \A c \in Commands \ {d} :
         /\ \A f \in Projects : /\ disk'[Transcript(f, c)] = disk[Transcript(f, c)]
                                /\ disk'[SessionDir(f, c)] = disk[SessionDir(f, c)]
         /\ disk'[HistoryDir(c)] = disk[HistoryDir(c)]

LEMMA OthersKeepCopies ==
  ASSUME TransferInv, TransferTypes', NEW d \in Commands, SparesOthers(d), Fits(d)'
  PROVE  TransferInv'
<1> SUFFICES ASSUME NEW c \in Commands, c # d PROVE Fits(c)'
  BY DEF TransferInv, Fits
<1>1. Fits(c) /\ command'[c] = command[c]
  BY DEF TransferInv, Fits, SparesOthers
<1>2. Copies(c)' = Copies(c)
  BY <1>1 DEF Copies
<1>3. CASE ~Copies(c)
  BY <1>1, <1>2, <1>3 DEF Fits, SparesOthers, Bare, Present
<1>4. CASE Copies(c)
  <2>1. command[c].folder \in Projects
    BY <1>4 DEF TransferInv, TransferTypes, Copies, Loads, Clones, Dumps, OtherCommands
  <2>2. CopyFits(c)'
    BY <1>1, <1>4, <2>1 DEF Fits, SparesOthers, CopyFits, Present
  <2> QED BY <1>2, <1>4, <2>2 DEF Fits
<1> QED BY <1>3, <1>4

LEMMA CommandShape ==
  ASSUME TransferTypes, NEW c \in Commands
  PROVE  /\ command[c].kind = "load" => command[c] \in Loads /\ command[c].id \in Conversations \cup {c}
         /\ command[c].kind = "clone" => command[c] \in Clones /\ command[c].id = c
         /\ command[c].kind = "dump" => command[c] \in Dumps
         /\ c \in Ids
BY DEF TransferTypes, Loads, Clones, Dumps, OtherCommands, Ids

(* A conversation begins, and so does a command.                           *)
LEMMA BeginningsKeepCopies ==
  ASSUME TransferInv, NEW c \in Commands, NEW f \in Projects,
         \/ \E id \in Ids : Converse(f, id, c) \/ BeginClone(c, f, id) \/ BeginDump(c, f, id)
         \/ \E id \in Conversations, newId \in BOOLEAN, sides \in SUBSET Side, nick \in BOOLEAN :
              BeginLoad(c, f, id, newId, sides, nick)
  PROVE  TransferInv'
<1> USE TransferAssumption
<1>0. TransferTypes /\ Fits(c) /\ c \in Ids /\ (command[c] = Nothing => Bare(c))
  BY DEF TransferInv, Fits, Copies, Nothing, Ids
<1>1. ASSUME NEW id \in Ids, Converse(f, id, c) PROVE TransferInv'
  <2> USE <1>1 DEF Converse
  <2> PICK sides \in SUBSET Side :
         disk' = [p \in Places |->
                    IF \/ p = Transcript(f, id)
                       \/ p = SessionDir(f, id) /\ "session" \in sides
                       \/ p = HistoryDir(id) /\ "history" \in sides
                    THEN c ELSE disk[p]]
    OBVIOUS
  <2>1. TransferTypes'
    BY <1>0 DEF TransferTypes, OtherCommands
  <2>2. \A d \in Commands : d # id /\ d \in Ids
    BY DEF Ids
  <2>3. \A d \in Commands : /\ \A g \in Projects : /\ disk'[Transcript(g, d)] = disk[Transcript(g, d)]
                                                   /\ disk'[SessionDir(g, d)] = disk[SessionDir(g, d)]
                            /\ disk'[HistoryDir(d)] = disk[HistoryDir(d)]
    BY <2>2, PlacesApart
  <2>4. Fits(c)'
    BY <1>0, <2>3 DEF Fits, Copies, Bare, Present, TransferTypes
  <2>5. SparesOthers(c)
    BY <1>0, <2>3 DEF SparesOthers, TransferTypes
  <2> QED BY <2>1, <2>4, <2>5, OthersKeepCopies
<1>2. ASSUME UNCHANGED disk, NEW r \in Loads \cup Clones \cup Dumps, command[c] = Nothing,
             command' = [command EXCEPT ![c] = r],
             r.kind = "load" => r.id \in Conversations \cup {c},
             r.kind = "clone" => r.id = c,
             r.kind \in {"load", "clone"} => r.step = "session",
             r.kind = "clone" => r.side = {}
      PROVE  TransferInv'
  <2>1. TransferTypes' /\ command'[c] = r
    BY <1>0, <1>2 DEF TransferTypes
  <2>2. Bare(c)'
    BY <1>0, <1>2 DEF Bare, Present
  <2>3. CopyFits(c)' \/ ~Copies(c)'
    BY <1>2, <2>1, <2>2 DEF CopyFits, Bare, Copies, Loads, Clones, Dumps, Present
  <2>4. SparesOthers(c)
    BY <1>0, <1>2 DEF SparesOthers, TransferTypes
  <2> QED BY <2>1, <2>2, <2>3, <2>4, OthersKeepCopies DEF Fits
<1>3. ASSUME NEW id \in Ids, BeginClone(c, f, id) \/ BeginDump(c, f, id) PROVE TransferInv'
  <2>1. PICK g \in Found(f, id) :
          \/ command' = [command EXCEPT ![c] =
               [kind |-> "clone", step |-> "session", folder |-> g, id |-> c, side |-> {}, source |-> id]]
          \/ command' = [command EXCEPT ![c] =
               [kind |-> "dump", step |-> "pack", folder |-> g, source |-> id]]
    BY <1>3 DEF BeginClone, BeginDump
  <2>2. g \in Projects
    BY DEF Found
  <2>3. [kind |-> "clone", step |-> "session", folder |-> g, id |-> c, side |-> {}, source |-> id] \in Clones
        /\ [kind |-> "dump", step |-> "pack", folder |-> g, source |-> id] \in Dumps
    BY <2>2 DEF Clones, Dumps
  <2> QED BY <1>2, <1>3, <2>1, <2>3 DEF BeginClone, BeginDump
<1>4. ASSUME NEW id \in Conversations, NEW newId \in BOOLEAN, NEW sides \in SUBSET Side, NEW nick \in BOOLEAN,
             BeginLoad(c, f, id, newId, sides, nick)
      PROVE  TransferInv'
  <2>1. PICK as \in Ids, n \in BOOLEAN :
          /\ as \in Conversations \cup {c}
          /\ command' = [command EXCEPT ![c] =
               [kind |-> "load", step |-> "session", folder |-> f, id |-> as, side |-> sides, nick |-> n]]
    BY <1>0, <1>4 DEF BeginLoad, Ids
  <2>2. [kind |-> "load", step |-> "session", folder |-> f, id |-> as, side |-> sides, nick |-> n] \in Loads
    BY DEF Loads
  <2> QED BY <1>2, <1>4, <2>1, <2>2 DEF BeginLoad
<1> QED BY <1>1, <1>3, <1>4

(* The command goes on, and of its own id's places only.                   *)
LEMMA OwnRecord ==
  ASSUME TransferInv, NEW c \in Commands, NEW r \in Loads \cup Clones,
         command[c].kind \in {"load", "clone"},
         command' = [command EXCEPT ![c] = r],
         r.kind = command[c].kind, r.id = command[c].id,
         disk' \in [Places -> Commands \cup {Nobody}],
         \A p \in Places \ {Transcript(command[c].folder, command[c].id),
                            SessionDir(command[c].folder, command[c].id),
                            HistoryDir(command[c].id)} : disk'[p] = disk[p]
  PROVE  /\ TransferTypes' /\ SparesOthers(c)
         /\ command'[c] = r
         /\ command[c].id # c => Fits(c)'
<1> USE TransferAssumption
<1>0. TransferTypes /\ Fits(c) /\ c \in Ids
  BY DEF TransferInv, Ids
<1>1. command'[c] = r
  BY <1>0 DEF TransferTypes
<1>2. command'[c] \in Loads \cup Clones /\ command'[c].id = command[c].id /\ command'[c].kind = command[c].kind
  BY <1>1
<1>3. TransferTypes'
  <2>2. command' \in [Commands -> Loads \cup Clones \cup Dumps \cup OtherCommands]
    BY <1>0, <1>1, <1>2 DEF TransferTypes
  <2>3. \A d \in Commands \ {c} : command'[d] = command[d]
    BY <1>0 DEF TransferTypes
  <2> QED BY <1>0, <1>2, <2>2, <2>3 DEF TransferTypes
<1>4. ASSUME NEW d \in Commands, command[c].id # d
      PROVE  /\ \A g \in Projects : /\ disk'[Transcript(g, d)] = disk[Transcript(g, d)]
                                    /\ disk'[SessionDir(g, d)] = disk[SessionDir(g, d)]
             /\ disk'[HistoryDir(d)] = disk[HistoryDir(d)]
  <2> DEFINE own == {Transcript(command[c].folder, command[c].id),
                     SessionDir(command[c].folder, command[c].id), HistoryDir(command[c].id)}
  <2>1. d \in Ids /\ command[c].folder \in Projects /\ command[c].id \in Ids
    BY <1>0, CommandShape DEF Ids, Loads, Clones
  <2>2. \A g \in Projects : /\ Transcript(g, d) \in Places \ own
                            /\ SessionDir(g, d) \in Places \ own
                            /\ HistoryDir(d) \in Places \ own
    BY <1>4, <2>1, PlacesApart
  <2>3. HistoryDir(d) \in Places \ own
    BY <2>1, <2>2
  <2> QED BY <2>2, <2>3
<1>5. \A d \in Commands \ {c} : command[c].id # d
  BY <1>0, CommandShape
<1>6. SparesOthers(c)
  BY <1>0, <1>4, <1>5 DEF SparesOthers, TransferTypes
<1>7. ASSUME command[c].id # c PROVE Fits(c)'
  BY <1>0, <1>2, <1>4, <1>7 DEF Fits, Copies, Bare, Present
<1> QED BY <1>1, <1>3, <1>6, <1>7

LEMMA OwnStep ==
  ASSUME TransferInv, NEW c \in Commands,
         NEW step \in {"history", "transcript", "nick", "journal", "over", "lines"},
         command[c].kind \in {"load", "clone"},
         command' = [command EXCEPT ![c].step = step],
         command[c].kind = "load" => step # "lines",
         command[c].kind = "clone" => step \notin {"nick", "journal"},
         disk' \in [Places -> Commands \cup {Nobody}],
         \A p \in Places \ {Transcript(command[c].folder, command[c].id),
                            SessionDir(command[c].folder, command[c].id),
                            HistoryDir(command[c].id)} : disk'[p] = disk[p]
  PROVE  /\ TransferTypes' /\ SparesOthers(c)
         /\ command'[c] = [command[c] EXCEPT !.step = step]
         /\ command[c].id # c => Fits(c)'
<1> DEFINE r == [command[c] EXCEPT !.step = step]
<1>1. r \in Loads \cup Clones /\ r.kind = command[c].kind /\ r.id = command[c].id
  BY CommandShape DEF TransferInv, Loads, Clones
<1>2. command' = [command EXCEPT ![c] = r]
  OBVIOUS
<1> HIDE DEF r
<1>3. /\ TransferTypes' /\ SparesOthers(c) /\ command'[c] = r
      /\ command[c].id # c => Fits(c)'
  BY <1>1, <1>2, OwnRecord
<1> QED BY <1>3 DEF r

(* What a command that copies does to the places of its own id.            *)
LEMMA OwnPlaces ==
  ASSUME TransferInv, NEW c \in Commands, command[c].kind \in {"load", "clone"}
  PROVE  LET f == command[c].folder
             id == command[c].id
         IN  /\ f \in Projects /\ id \in Ids
             /\ {Transcript(f, id), SessionDir(f, id), HistoryDir(id)} \subseteq Places
             /\ Transcript(f, id) \notin {SessionDir(f, id), HistoryDir(id)}
             /\ SessionDir(f, id) # HistoryDir(id)
             /\ \A g \in Projects : /\ Transcript(g, id) \in Places
                                    /\ Transcript(g, id) \notin {SessionDir(f, id), HistoryDir(id)}
                                    /\ g # f => Transcript(g, id) # Transcript(f, id)
<1>1. command[c].folder \in Projects /\ command[c].id \in Ids
  BY CommandShape DEF TransferInv, Loads, Clones, Ids
<1> QED BY <1>1, PlacesApart

(* The steps of a load.                                                    *)
LEMMA LoadKeepsCopies ==
  ASSUME TransferInv, NEW c \in Commands,
         \/ PlaceSession(c) \/ PlaceHistory(c) \/ PlaceTranscript(c)
         \/ LoadFails(c) \/ LoadNick(c) \/ LoadJournal(c)
  PROVE  TransferInv'
<1> DEFINE f == command[c].folder
           id == command[c].id
           sides == command[c].side
           t == Transcript(f, id)
           s == SessionDir(f, id)
           h == HistoryDir(id)
<1> USE DEF To, At, Put
<1>1. /\ TransferTypes /\ disk = [p \in Places |-> disk[p]] /\ command[c].kind = "load"
      /\ id = c => CopyFits(c)
      /\ command[c] \in Loads
  BY CommandShape DEF TransferInv, Fits, Copies, TransferTypes, PlaceSession, PlaceHistory,
     PlaceTranscript, LoadFails, LoadNick, LoadJournal, PlaceDir
<1>2. ASSUME TransferTypes', SparesOthers(c),
             command'[c].kind = command[c].kind, command'[c].id = id,
             id # c => Fits(c)',
             id = c => CopyFits(c)'
      PROVE  TransferInv'
  <2>1. Copies(c)' <=> id = c
    BY <1>1, <1>2 DEF Copies, Loads
  <2> QED BY <1>2, <2>1, OthersKeepCopies DEF Fits
<1>3. CASE PlaceSession(c)
  <2> USE <1>3 DEF PlaceSession, PlaceDir
  <2>1. \/ "session" \notin sides /\ disk' = disk
        \/ disk' = [disk EXCEPT ![s] = c]
    BY <1>1
  <2>2. /\ disk' \in [Places -> Commands \cup {Nobody}]
        /\ \A p \in Places \ {t, s, h} : disk'[p] = disk[p]
    BY <1>1, <2>1, OwnPlaces DEF TransferTypes
  <2>3. /\ TransferTypes' /\ SparesOthers(c) /\ (id # c => Fits(c)')
        /\ command'[c] = [command[c] EXCEPT !.step = "history"]
    BY <1>1, <2>1, <2>2, OwnStep
  <2>4. id = c => CopyFits(c)'
    BY <1>1, <2>1, <2>3, OwnPlaces DEF CopyFits, Loads, Present
  <2>5. command'[c].kind = command[c].kind /\ command'[c].id = id
    BY <1>1, <2>3 DEF Loads
  <2> QED BY <1>2, <2>3, <2>4, <2>5
<1>4. CASE PlaceHistory(c)
  <2> USE <1>4 DEF PlaceHistory, PlaceDir
  <2>1. \/ "history" \notin sides /\ disk' = disk
        \/ disk' = [disk EXCEPT ![h] = c]
    BY <1>1
  <2>2. /\ disk' \in [Places -> Commands \cup {Nobody}]
        /\ \A p \in Places \ {t, s, h} : disk'[p] = disk[p]
    BY <1>1, <2>1, OwnPlaces DEF TransferTypes
  <2>3. /\ TransferTypes' /\ SparesOthers(c) /\ (id # c => Fits(c)')
        /\ command'[c] = [command[c] EXCEPT !.step = "transcript"]
    BY <1>1, <2>1, <2>2, OwnStep
  <2>4. id = c => CopyFits(c)'
    BY <1>1, <2>1, <2>3, OwnPlaces DEF CopyFits, Loads, Present
  <2>5. command'[c].kind = command[c].kind /\ command'[c].id = id
    BY <1>1, <2>3 DEF Loads
  <2> QED BY <1>2, <2>3, <2>4, <2>5
<1>5. CASE PlaceTranscript(c)
  <2> USE <1>5 DEF PlaceTranscript
  <2>1. disk' = [disk EXCEPT ![t] = c]
    BY <1>1
  <2>2. /\ disk' \in [Places -> Commands \cup {Nobody}]
        /\ \A p \in Places \ {t, s, h} : disk'[p] = disk[p]
    BY <1>1, <2>1, OwnPlaces DEF TransferTypes
  <2>3. /\ TransferTypes' /\ SparesOthers(c) /\ (id # c => Fits(c)')
        /\ command'[c] = [command[c] EXCEPT !.step = "nick"]
    BY <1>1, <2>1, <2>2, OwnStep
  <2>4. id = c => CopyFits(c)'
    BY <1>1, <2>1, <2>3, OwnPlaces, SMTT(30) DEF CopyFits, Loads, Present
  <2>5. command'[c].kind = command[c].kind /\ command'[c].id = id
    BY <1>1, <2>3 DEF Loads
  <2> QED BY <1>2, <2>3, <2>4, <2>5
<1>6. CASE LoadFails(c)
  <2> USE <1>6 DEF LoadFails
  <2>1. disk' = Empty(Undone(c)) /\ Undone(c) \subseteq {t, s, h}
    BY DEF Undone
  <2>2. /\ disk' \in [Places -> Commands \cup {Nobody}]
        /\ \A p \in Places \ {t, s, h} : disk'[p] = disk[p]
    BY <1>1, <2>1, OwnPlaces DEF Empty, TransferTypes
  <2>3. /\ TransferTypes' /\ SparesOthers(c) /\ (id # c => Fits(c)')
        /\ command'[c] = [command[c] EXCEPT !.step = "over"]
    BY <1>1, <2>1, <2>2, OwnStep
  <2>4. id = c => \A g \in Projects : ~Present(Transcript(g, c))'
    BY <1>1, <2>1, OwnPlaces DEF CopyFits, Present, Empty
  <2>5. id = c => CopyFits(c)'
    BY <1>1, <2>3, <2>4, OwnPlaces, SMTT(20) DEF CopyFits, Loads
  <2>6. command'[c].kind = command[c].kind /\ command'[c].id = id
    BY <1>1, <2>3 DEF Loads
  <2> QED BY <1>2, <2>3, <2>5, <2>6
<1>7. CASE LoadNick(c) \/ LoadJournal(c)
  <2> USE <1>7 DEF LoadNick, LoadJournal
  <2> PICK step \in {"journal", "over"} : To(c, step)
    OBVIOUS
  <2>1. /\ TransferTypes' /\ SparesOthers(c) /\ (id # c => Fits(c)')
        /\ command'[c] = [command[c] EXCEPT !.step = step]
    BY <1>1, OwnPlaces, OwnStep DEF TransferTypes
  <2>2. id = c => CopyFits(c)'
    BY <1>1, <2>1, OwnPlaces, SMTT(30) DEF CopyFits, Loads, Present
  <2>3. command'[c].kind = command[c].kind /\ command'[c].id = id
    BY <1>1, <2>1 DEF Loads
  <2> QED BY <1>2, <2>1, <2>2, <2>3
<1> QED BY <1>3, <1>4, <1>5, <1>6, <1>7

(* The steps of a clone.                                                   *)
LEMMA CloneKeepsCopies ==
  ASSUME TransferInv, NEW c \in Commands,
         \/ CopySession(c) \/ CopyHistory(c) \/ CreateTranscript(c) \/ FinishClone(c) \/ CloneFails(c)
         \/ Killed(c) /\ command[c].kind \in {"load", "clone"}
  PROVE  TransferInv'
<1> DEFINE f == command[c].folder
           id == command[c].id
           sides == command[c].side
           t == Transcript(f, id)
           s == SessionDir(f, id)
           h == HistoryDir(id)
<1> USE DEF To, At, Put
<1>1. /\ TransferTypes /\ disk = [p \in Places |-> disk[p]] /\ command[c].kind \in {"load", "clone"}
      /\ id = c => CopyFits(c)
      /\ command[c] \in Loads \cup Clones
      /\ command[c].kind = "clone" => id = c /\ command[c] \in Clones
  BY CommandShape DEF TransferInv, Fits, Copies, TransferTypes, CopySession, CopyHistory,
     CreateTranscript, FinishClone, CloneFails, CopyDir
<1>2. ASSUME TransferTypes', SparesOthers(c),
             command'[c].kind = command[c].kind, command'[c].id = id,
             id # c => Fits(c)',
             id = c => CopyFits(c)'
      PROVE  TransferInv'
  <2>1. Copies(c)' <=> id = c
    BY <1>1, <1>2 DEF Copies
  <2> QED BY <1>2, <2>1, OthersKeepCopies DEF Fits
<1>3. ASSUME NEW which \in Side, NEW next \in {"history", "transcript"}, NEW from, NEW to \in {s, h},
             CopyDir(c, which, next, from, to),
             which = "session" => next = "history" /\ to = s,
             which = "history" => next = "transcript" /\ to = h
      PROVE  TransferInv'
  <2> USE <1>3 DEF CopyDir
  <2>1. /\ id = c /\ CopyFits(c) /\ command[c] \in Clones
        /\ command[c].step = which /\ command[c].kind = "clone"
    BY <1>1
  <2>2. CASE ~Present(from)
    <3>1. /\ disk' \in [Places -> Commands \cup {Nobody}] /\ disk' = disk
          /\ command' = [command EXCEPT ![c].step = next]
      BY <1>1, <2>2 DEF TransferTypes
    <3>2. TransferTypes' /\ SparesOthers(c) /\ command'[c] = [command[c] EXCEPT !.step = next]
      BY <1>1, <3>1, OwnStep
    <3>3. CopyFits(c)'
      BY <2>1, <3>1, <3>2, OwnPlaces DEF CopyFits, Clones, Present, Side
    <3>4. command'[c].kind = command[c].kind /\ command'[c].id = id
      BY <2>1, <3>2 DEF Clones
    <3> QED BY <1>2, <2>1, <3>2, <3>3, <3>4
  <2>3. CASE Present(from)
    <3> DEFINE r == [command[c] EXCEPT !.step = next, !.side = sides \cup {which}]
    <3>1. /\ r \in Clones /\ r.kind = command[c].kind /\ r.id = command[c].id
          /\ r.step = next /\ r.side = sides \cup {which} /\ r.folder = f
      BY <2>1 DEF Clones
    <3>2. command' = [command EXCEPT ![c] = r] /\ disk' = [disk EXCEPT ![to] = c]
      BY <2>1, <2>3 DEF Clones
    <3> HIDE DEF r
    <3>3. /\ disk' \in [Places -> Commands \cup {Nobody}]
          /\ \A p \in Places \ {t, s, h} : disk'[p] = disk[p]
      BY <1>1, <3>2, OwnPlaces DEF TransferTypes
    <3>4. TransferTypes' /\ SparesOthers(c) /\ command'[c] = r
      BY <1>1, <3>1, <3>2, <3>3, OwnRecord
    <3>5. \A g \in Projects : ~Present(Transcript(g, c)) /\ ~Present(Transcript(g, c))'
      BY <1>1, <2>1, <3>2, OwnPlaces DEF CopyFits, Present, Side
    <3>6. ASSUME which = "session" PROVE CopyFits(c)'
      <4>1. sides = {} /\ disk'[s] = c
        BY <1>1, <2>1, <3>2, <3>6, OwnPlaces DEF CopyFits
      <4> QED BY <2>1, <3>1, <3>4, <3>5, <3>6, <4>1, OwnPlaces DEF CopyFits
    <3>7. ASSUME which = "history" PROVE CopyFits(c)'
      <4>1. sides \subseteq {"session"} /\ disk'[h] = c /\ disk'[s] = disk[s]
            /\ ("session" \in sides => disk[s] = c)
        BY <1>1, <2>1, <3>2, <3>7, OwnPlaces DEF CopyFits
      <4> QED BY <2>1, <3>1, <3>4, <3>5, <3>7, <4>1, OwnPlaces DEF CopyFits
    <3>8. CopyFits(c)'
      BY <3>6, <3>7 DEF Side
    <3> QED BY <1>2, <2>1, <3>1, <3>4, <3>8
  <2> QED BY <2>2, <2>3
<1>4. CASE CopySession(c) \/ CopyHistory(c)
  <2>1. id = c
    BY <1>1, <1>4 DEF CopySession, CopyHistory, CopyDir
  <2> QED BY <1>3, <1>4, <2>1 DEF CopySession, CopyHistory, Side
<1>5. CASE CreateTranscript(c)
  <2> USE <1>5 DEF CreateTranscript
  <2>1. id = c /\ disk' = [disk EXCEPT ![t] = c]
    BY <1>1
  <2>2. /\ disk' \in [Places -> Commands \cup {Nobody}]
        /\ \A p \in Places \ {t, s, h} : disk'[p] = disk[p]
    BY <1>1, <2>1, OwnPlaces DEF TransferTypes
  <2>3. TransferTypes' /\ SparesOthers(c) /\ command'[c] = [command[c] EXCEPT !.step = "lines"]
    BY <1>1, <2>2, OwnStep
  <2>4. CopyFits(c)'
    BY <1>1, <2>1, <2>3, OwnPlaces DEF CopyFits, Clones, Present
  <2>5. command'[c].kind = command[c].kind /\ command'[c].id = id
    BY <1>1, <2>3 DEF Clones
  <2> QED BY <1>2, <2>1, <2>3, <2>4, <2>5
<1>6. CASE CloneFails(c)
  <2> USE <1>6 DEF CloneFails
  <2>1. id = c /\ disk' = Empty({t, s, h})
    BY <1>1
  <2>2. /\ disk' \in [Places -> Commands \cup {Nobody}]
        /\ \A p \in Places \ {t, s, h} : disk'[p] = disk[p]
    BY <1>1, <2>1 DEF TransferTypes, Empty
  <2>3. TransferTypes' /\ SparesOthers(c) /\ command'[c] = [command[c] EXCEPT !.step = "over"]
    BY <1>1, <2>2, OwnStep
  <2>4. \A g \in Projects : ~Present(Transcript(g, c))'
    BY <1>1, <2>1, OwnPlaces DEF CopyFits, Present, Empty
  <2>5. command'[c].kind = command[c].kind /\ command'[c].id = id /\ command'[c].step = "over"
        /\ command'[c].folder = f
    BY <1>1, <2>3 DEF Clones
  <2>6. CopyFits(c)'
    BY <2>4, <2>5, OwnPlaces DEF CopyFits
  <2> QED BY <1>2, <2>1, <2>3, <2>5, <2>6
<1>7. CASE FinishClone(c) \/ (Killed(c) /\ command[c].kind \in {"load", "clone"})
  <2> USE <1>7 DEF FinishClone, Killed
  <2>1. /\ disk' \in [Places -> Commands \cup {Nobody}] /\ disk' = disk
        /\ command' = [command EXCEPT ![c].step = "over"]
    BY <1>1 DEF TransferTypes
  <2>2. /\ TransferTypes' /\ SparesOthers(c) /\ (id # c => Fits(c)')
        /\ command'[c] = [command[c] EXCEPT !.step = "over"]
    BY <1>1, <2>1, OwnStep
  <2>3. /\ command'[c].kind = command[c].kind /\ command'[c].id = id
        /\ command'[c].folder = f /\ command'[c].side = sides /\ command'[c].step = "over"
    BY <1>1, <2>2 DEF Loads, Clones
  <2>4. id = c => CopyFits(c)'
    BY <1>1, <2>1, <2>3 DEF CopyFits, Present
  <2> QED BY <1>2, <2>2, <2>3, <2>4
<1> QED BY <1>4, <1>5, <1>6, <1>7

(* The steps of a dump, which puts nothing in place.                       *)
LEMMA DumpKeepsCopies ==
  ASSUME TransferInv, NEW c \in Commands,
         FinishDump(c) \/ DumpFails(c) \/ (Killed(c) /\ command[c].kind = "dump")
  PROVE  TransferInv'
<1> USE DEF To, At
<1>1. /\ TransferTypes /\ Fits(c) /\ command[c] \in Dumps /\ command[c].kind = "dump"
      /\ disk' = disk /\ command' = [command EXCEPT ![c].step = "over"]
  BY CommandShape DEF TransferInv, FinishDump, DumpFails, Killed
<1>2. command'[c] = [command[c] EXCEPT !.step = "over"] /\ command'[c] \in Dumps
  BY <1>1 DEF TransferTypes, Dumps
<1>3. TransferTypes'
  BY <1>1, <1>2 DEF TransferTypes, Dumps
<1>4. Fits(c)'
  BY <1>1, <1>2 DEF Fits, Copies, Dumps, Bare, Present
<1>5. SparesOthers(c)
  BY <1>1 DEF SparesOthers, TransferTypes
<1> QED BY <1>3, <1>4, <1>5, OthersKeepCopies

LEMMA TransferKeeps ==
  ASSUME TransferInv, TransferNext \/ UNCHANGED transferVars
  PROVE  TransferInv'
<1>1. CASE UNCHANGED transferVars
  BY <1>1 DEF transferVars, TransferInv, TransferTypes, Fits, Copies, CopyFits, Bare, Present
<1>2. CASE TransferNext
  <2>1. PICK c \in Commands :
           \/ \E f \in Projects :
                \/ \E id \in Ids : Converse(f, id, c) \/ BeginClone(c, f, id) \/ BeginDump(c, f, id)
                \/ \E id \in Conversations, newId \in BOOLEAN, sides \in SUBSET Side, nick \in BOOLEAN :
                     BeginLoad(c, f, id, newId, sides, nick)
           \/ PlaceSession(c) \/ PlaceHistory(c) \/ PlaceTranscript(c) \/ LoadFails(c)
           \/ LoadNick(c) \/ LoadJournal(c)
           \/ CopySession(c) \/ CopyHistory(c) \/ CreateTranscript(c) \/ FinishClone(c) \/ CloneFails(c)
           \/ FinishDump(c) \/ DumpFails(c) \/ Killed(c)
    BY <1>2 DEF TransferNext
  <2>2. Killed(c) => command[c].kind \in {"load", "clone"} \/ command[c].kind = "dump"
    BY DEF Killed
  <2> QED BY <2>1, <2>2, BeginningsKeepCopies, LoadKeepsCopies, CloneKeepsCopies, DumpKeepsCopies
<1> QED BY <1>1, <1>2

(* A copy that is listed has its folders.                                  *)
LEMMA CopiesAreComplete == TransferInv => CopyIsComplete
<1> SUFFICES ASSUME TransferInv, NEW c \in Commands, NEW f \in Projects,
                    command[c].kind \in {"load", "clone"}, Present(Transcript(f, c))
             PROVE  /\ "session" \in command[c].side => disk[SessionDir(f, c)] = c
                    /\ "history" \in command[c].side => disk[HistoryDir(c)] = c
  BY DEF CopyIsComplete
<1>1. CopyFits(c)
  BY DEF TransferInv, Fits, Bare
<1> QED BY <1>1 DEF CopyFits

-----------------------------------------------------------------------------
(* The journal that is packed, and the older release's insights in it.     *)

(* A note goes into one of the notes it is folded into, or where there is  *)
(* none yet.                                                               *)
LEMMA HomeFits ==
  ASSUME NEW j \in Journals, NEW e \in Entry
  PROVE  /\ Same(j, e) # {} => Home(j, e) \in Same(j, e)
         /\ Same(j, e) = {} => Home(j, e) \notin Held(j)
<1>1. Same(j, e) \subseteq 0 .. MaxNumber /\ Held(j) \cup {0} \subseteq 0 .. MaxNumber
  BY ArchiveAssumption DEF Same, Held, EntryIds
<1>2. Same(j, e) # {} => Max(Same(j, e)) \in Same(j, e)
  BY <1>1, LargestIsLargest, ArchiveAssumption
<1>3. \A i \in Held(j) : i <= Max(Held(j) \cup {0})
  BY <1>1, LargestIsLargest, ArchiveAssumption
<1>4. Max(Held(j) \cup {0}) \in 0 .. MaxNumber
  BY <1>1, LargestIsLargest, ArchiveAssumption
<1>5. Max(Held(j) \cup {0}) + 1 \notin Held(j)
  BY <1>3, <1>4
<1> QED BY <1>2, <1>5 DEF Home

(* The texts of the entries there are; an old insight is there once, ...   *)
TextsHere == {here[i].text : i \in Held(here)}

OldOnce ==
    \A i, k \in Held(here) : here[i].at = 0 /\ here[k].at = 0 /\ here[i].text = here[k].text => i = k

(* ... and those are there that a call has copied, or all if one is done.  *)
CopiedAreThere ==
    deletes = 0 =>
        \A o \in Callers, m \in 1 .. Len(OldInsights) :
            m <= copying[o] => OldInsights[m] \in TextsHere

MarkedAreThere ==
    deletes = 0 /\ marked => \A m \in 1 .. Len(OldInsights) : OldInsights[m] \in TextsHere

InsightsInv ==
    /\ now \in 0 .. MaxTime /\ here \in Journals /\ deletes \in Nat
    /\ copying \in [Callers -> 0 .. Len(OldInsights) + 1]
    /\ OldOnce /\ CopiedAreThere /\ MarkedAreThere

LEMMA InsightsInitInv == ArchiveInit => InsightsInv
<1> SUFFICES ASSUME ArchiveInit PROVE InsightsInv
  OBVIOUS
<1> USE ArchiveAssumption DEF ArchiveInit
<1>1. here \in Journals /\ Held(here) = {}
  BY DEF Journals, Held
<1>2. now \in 0 .. MaxTime /\ deletes \in Nat /\ Len(OldInsights) \in Nat
  OBVIOUS
<1> QED BY <1>1, <1>2 DEF InsightsInv, OldOnce, CopiedAreThere, MarkedAreThere

(* An entry that is added is there then, once if it is old, and no other   *)
(* is lost.                                                                *)
LEMMA AddingKeepsOld ==
  ASSUME InsightsInv, NEW e \in Entry, HasRoom(here, e), here' \in Journals,
         \A i \in EntryIds : i # Home(here, e) => here'[i] = here[i],
         LET h == Home(here, e)
         IN  /\ here'[h].text = e.text
             /\ here'[h].at = IF Same(here, e) # {} THEN here[h].at ELSE e.at
  PROVE  OldOnce' /\ TextsHere \subseteq TextsHere' /\ e.text \in TextsHere'
<1> DEFINE h == Home(here, e)
<1>1. h \in EntryIds /\ e.text \in Notes /\ e.at \in Nat
  BY ArchiveAssumption DEF HasRoom, Entry
<1>2. h \in Held(here')
  BY <1>1, ArchiveAssumption DEF Held, NoEntry
<1>3. Same(here, e) # {} => h \in Held(here) /\ here[h].text = e.text
  BY HomeFits DEF InsightsInv, Same
<1>4. \A i \in EntryIds : i # h => (i \in Held(here') <=> i \in Held(here))
  BY DEF Held
<1>5. Held(here) \subseteq EntryIds /\ Held(here') \subseteq EntryIds
  BY DEF Held
<1>6. ASSUME NEW k \in Held(here'), k # h, here'[k].at = 0, here'[h].at = 0,
             here'[k].text = here'[h].text
      PROVE  FALSE
  <2>1. k \in Held(here) /\ here[k].at = 0 /\ here[k].text = e.text
    BY <1>6, <1>4, <1>5
  <2>2. CASE Same(here, e) # {}
    BY <2>1, <2>2, <1>3, <1>6 DEF InsightsInv, OldOnce
  <2>3. CASE Same(here, e) = {}
    <3>1. e.at = 0
      BY <2>3, <1>6
    <3>2. here[k].at + Window >= e.at
      BY <3>1, <2>1, ArchiveAssumption
    <3> QED BY <3>2, <2>1, <2>3 DEF Same
  <2> QED BY <2>2, <2>3
<1>7. OldOnce'
  <2> SUFFICES ASSUME NEW i \in Held(here'), NEW k \in Held(here'), here'[i].at = 0, here'[k].at = 0,
                      here'[i].text = here'[k].text
               PROVE  i = k
    BY DEF OldOnce
  <2>1. CASE i # h /\ k # h
    BY <2>1, <1>4, <1>5 DEF InsightsInv, OldOnce
  <2> QED BY <2>1, <1>6
<1>8. TextsHere \subseteq TextsHere'
  <2> SUFFICES ASSUME NEW i \in Held(here) PROVE here[i].text \in TextsHere'
    BY DEF TextsHere
  <2>1. CASE i # h
    BY <2>1, <1>4, <1>5 DEF TextsHere
  <2>2. CASE i = h
    <3>1. Same(here, e) # {}
      BY <2>2, HomeFits DEF InsightsInv
    <3> QED BY <3>1, <2>2, <1>2, <1>3 DEF TextsHere
  <2> QED BY <2>1, <2>2
<1> QED BY <1>2, <1>7, <1>8 DEF TextsHere

LEMMA AddedFits ==
  ASSUME NEW j \in Journals, NEW e \in Entry, HasRoom(j, e)
  PROVE  /\ Added(j, e) \in Journals
         /\ \A i \in EntryIds : i # Home(j, e) => Added(j, e)[i] = j[i]
         /\ Added(j, e)[Home(j, e)].text = e.text
         /\ Added(j, e)[Home(j, e)].at = IF Same(j, e) # {} THEN j[Home(j, e)].at ELSE e.at
         /\ Added(j, e)[Home(j, e)] \in Entry
<1> DEFINE h == Home(j, e)
           new == IF Same(j, e) # {} THEN Flagged(j[h], e.flag) ELSE [e EXCEPT !.links = {}]
<1>1. h \in EntryIds
  BY DEF HasRoom
<1>2. Added(j, e) = [j EXCEPT ![h] = new]
  BY <1>1 DEF Added, Journals
<1>3. /\ new \in Entry /\ new.text = e.text
      /\ new.at = IF Same(j, e) # {} THEN j[h].at ELSE e.at
  <2>1. CASE Same(j, e) # {}
    <3>1. h \in Same(j, e)
      BY <2>1, HomeFits
    <3>2. j[h] \in Entry /\ j[h].text = e.text
      BY <3>1 DEF Same, Held, Journals
    <3>3. new = Flagged(j[h], e.flag)
      BY <2>1
    <3>4. Flagged(j[h], e.flag) \in Entry /\ Flagged(j[h], e.flag).text = j[h].text
          /\ Flagged(j[h], e.flag).at = j[h].at
      BY <3>2 DEF Flagged, Entry
    <3> QED BY <2>1, <3>2, <3>3, <3>4
  <2>2. CASE Same(j, e) = {}
    BY <2>2 DEF Entry
  <2> QED BY <2>1, <2>2
<1> HIDE DEF new, h
<1>4. [j EXCEPT ![h] = new] \in Journals
  BY <1>1, <1>3 DEF Journals
<1> QED BY <1>1, <1>2, <1>3, <1>4 DEF Journals, h

(* What a step does that adds nothing: texts stay, or an entry is deleted. *)
LEMMA InsightsKeep ==
  ASSUME InsightsInv, ArchiveNext \/ UNCHANGED archiveVars
  PROVE  InsightsInv'
<1> USE ArchiveAssumption
<1> DEFINE n == Len(OldInsights)
<1>0. n \in Nat /\ \A m \in 1 .. n : OldInsights[m] \in Notes
  OBVIOUS
<1>1. ASSUME UNCHANGED <<here, deletes, copying, marked>>, now' \in 0 .. MaxTime
      PROVE  InsightsInv'
  BY <1>1 DEF InsightsInv, OldOnce, CopiedAreThere, MarkedAreThere, TextsHere, Held
<1>2. ASSUME NEW t \in Notes, NEW flag \in {"none", "open"}, NEW linked \in {{}} \cup {{i} : i \in EntryIds},
             Write(t, flag, linked)
      PROVE  InsightsInv'
  <2> DEFINE e == [text |-> t, at |-> now, flag |-> flag, links |-> {}]
  <2>1. e \in Entry /\ HasRoom(here, e) /\ here \in Journals /\ linked \subseteq EntryIds
    BY <1>2 DEF Write, Entry, InsightsInv, EntryIds
  <2>2. /\ here' = IF Same(here, e) # {} THEN Added(here, e)
                   ELSE [Added(here, e) EXCEPT ![Home(here, e)].links = linked]
        /\ UNCHANGED <<now, deletes, copying, marked>>
    BY <1>2 DEF Write
  <2> HIDE DEF e
  <2>3. /\ here' \in Journals
        /\ \A i \in EntryIds : i # Home(here, e) => here'[i] = here[i]
        /\ here'[Home(here, e)].text = e.text
        /\ here'[Home(here, e)].at = IF Same(here, e) # {} THEN here[Home(here, e)].at ELSE e.at
    <3> DEFINE h == Home(here, e)
               j == Added(here, e)
    <3>1. h \in EntryIds
      BY <2>1 DEF HasRoom
    <3>2. /\ j \in Journals /\ j[h] \in Entry
          /\ \A i \in EntryIds : i # h => j[i] = here[i]
          /\ j[h].text = e.text
          /\ j[h].at = IF Same(here, e) # {} THEN here[h].at ELSE e.at
      BY <2>1, AddedFits
    <3>3. here' = j \/ here' = [j EXCEPT ![h].links = linked]
      BY <2>2
    <3> HIDE DEF h, j
    <3>4. [j[h] EXCEPT !.links = linked] \in Entry
      BY <2>1, <3>2 DEF Entry
    <3>5. here' \in Journals
      BY <3>1, <3>2, <3>3, <3>4 DEF Journals
    <3>6. here'[h].text = j[h].text /\ here'[h].at = j[h].at /\ \A i \in EntryIds : i # h => here'[i] = j[i]
      BY <3>1, <3>2, <3>3 DEF Journals, Entry
    <3> QED BY <3>2, <3>5, <3>6 DEF h
  <2>4. OldOnce' /\ TextsHere \subseteq TextsHere'
    BY <2>1, <2>3, AddingKeepsOld
  <2> QED BY <2>2, <2>3, <2>4 DEF InsightsInv, CopiedAreThere, MarkedAreThere
<1>3. ASSUME NEW i \in EntryIds, CloseEntry(i) PROVE InsightsInv'
  <2>1. here' = [here EXCEPT ![i].flag = "closed"] /\ here[i].flag = "open" /\ UNCHANGED <<now, deletes, copying, marked>>
    BY <1>3 DEF CloseEntry
  <2>2. here[i] \in Entry
    BY <2>1 DEF InsightsInv, Journals, NoEntry
  <2>3. /\ here' \in Journals
        /\ \A k \in EntryIds : /\ here'[k].text = here[k].text /\ here'[k].at = here[k].at
                               /\ here'[k] = NoEntry <=> here[k] = NoEntry
    <3>1. [here[i] EXCEPT !.flag = "closed"] \in Entry
      BY <2>2 DEF Entry
    <3>2. here' = [here EXCEPT ![i] = [here[i] EXCEPT !.flag = "closed"]] /\ here' \in Journals
      BY <2>1, <3>1 DEF InsightsInv, Journals
    <3>3. /\ here'[i].text = here[i].text /\ here'[i].at = here[i].at
          /\ here'[i] # NoEntry /\ here[i] # NoEntry
      BY <2>1, <2>2, <3>1, <3>2 DEF InsightsInv, Journals, Entry, NoEntry
    <3> QED BY <3>2, <3>3, SMTT(20) DEF InsightsInv, Journals
  <2> QED BY <2>1, <2>3 DEF InsightsInv, OldOnce, CopiedAreThere, MarkedAreThere, TextsHere, Held
<1>4. ASSUME NEW i \in EntryIds, DropEntry(i) PROVE InsightsInv'
  <2>1. /\ deletes' = deletes + 1 /\ UNCHANGED <<now, copying, marked>>
        /\ here' = [k \in EntryIds |-> IF k = i THEN NoEntry ELSE [here[k] EXCEPT !.links = @ \ {i}]]
    BY <1>4 DEF DropEntry
  <2>2. ASSUME NEW k \in EntryIds
        PROVE  /\ here'[k] \in Entry \cup {NoEntry}
               /\ here'[k] # NoEntry => /\ here[k] # NoEntry
                                        /\ here'[k].text = here[k].text /\ here'[k].at = here[k].at
    <3>1. here[k] \in Entry \cup {NoEntry}
      BY DEF InsightsInv, Journals
    <3>2. here'[k] = IF k = i THEN NoEntry ELSE [here[k] EXCEPT !.links = @ \ {i}]
      BY <2>1
    <3>3. here[k] = NoEntry => here'[k] = NoEntry
      <4>1. NoEntry.links \ {i} = NoEntry.links
        BY DEF NoEntry
      <4>2. [NoEntry EXCEPT !.links = NoEntry.links] = NoEntry
        BY DEF NoEntry
      <4> QED BY <3>2, <4>1, <4>2
    <3>4. ASSUME here[k] \in Entry, k # i
          PROVE  /\ here'[k] \in Entry
                 /\ here'[k].text = here[k].text /\ here'[k].at = here[k].at
      <4>1. here[k].links \ {i} \in SUBSET EntryIds
        BY <3>4 DEF Entry
      <4> QED BY <3>2, <3>4, <4>1 DEF Entry
    <3>5. NoEntry \notin Entry
      BY DEF Entry, NoEntry
    <3> QED BY <3>1, <3>2, <3>3, <3>4, <3>5
  <2>3. here' \in Journals
    BY <2>1, <2>2 DEF Journals
  <2>4. deletes' \in Nat /\ deletes' # 0
    BY <2>1 DEF InsightsInv
  <2>5. OldOnce'
    BY <2>2 DEF InsightsInv, OldOnce, Held
  <2> QED BY <2>1, <2>3, <2>4, <2>5 DEF InsightsInv, CopiedAreThere, MarkedAreThere
<1>5. ASSUME NEW o \in Callers, CopyInsight(o) PROVE InsightsInv'
  <2> DEFINE e == [text |-> OldInsights[copying[o] + 1], at |-> 0, flag |-> "none", links |-> {}]
  <2>1. /\ HasRoom(here, e) /\ here' = Added(here, e) /\ copying[o] < n
        /\ copying' = [copying EXCEPT ![o] = @ + 1] /\ UNCHANGED <<now, deletes, marked>>
    BY <1>5 DEF CopyInsight
  <2>2. copying[o] \in 0 .. n + 1 /\ copying[o] + 1 \in 1 .. n
    BY <2>1, <1>0 DEF InsightsInv
  <2>3. e \in Entry /\ e.text = OldInsights[copying[o] + 1]
    BY <2>2, <1>0 DEF Entry
  <2> HIDE DEF e, n
  <2>4. OldOnce' /\ TextsHere \subseteq TextsHere' /\ e.text \in TextsHere' /\ here' \in Journals
    BY <2>1, <2>3, AddedFits, AddingKeepsOld DEF InsightsInv
  <2>5. copying' \in [Callers -> 0 .. n + 1]
    BY <2>1, <2>2, <1>0 DEF InsightsInv, n
  <2>6. CopiedAreThere'
    <3> SUFFICES ASSUME deletes' = 0, NEW q \in Callers, NEW m \in 1 .. n, m <= copying'[q]
                 PROVE  OldInsights[m] \in TextsHere'
      BY DEF CopiedAreThere, n
    <3>1. m <= copying[q] \/ m = copying[o] + 1
      BY <2>1, <2>2, <1>0 DEF InsightsInv, n
    <3> QED BY <3>1, <2>1, <2>3, <2>4 DEF InsightsInv, CopiedAreThere, n
  <2> QED BY <2>1, <2>4, <2>5, <2>6 DEF InsightsInv, MarkedAreThere, n
<1>6. ASSUME NEW o \in Callers, MarkImported(o) PROVE InsightsInv'
  <2>1. /\ copying[o] = n /\ marked' = TRUE /\ copying' = [copying EXCEPT ![o] = n + 1]
        /\ UNCHANGED <<now, here, deletes>>
    BY <1>6 DEF MarkImported
  <2>2. copying' \in [Callers -> 0 .. n + 1]
    BY <2>1, <1>0 DEF InsightsInv
  <2>3. TextsHere' = TextsHere /\ OldOnce'
    BY <2>1 DEF InsightsInv, TextsHere, OldOnce, Held
  <2>4. deletes = 0 => \A m \in 1 .. n : OldInsights[m] \in TextsHere
    BY <2>1, <1>0 DEF InsightsInv, CopiedAreThere
  <2> QED BY <2>1, <2>2, <2>3, <2>4 DEF InsightsInv, CopiedAreThere, MarkedAreThere
<1>7. ASSUME NEW o \in Callers, OpenerDies(o) PROVE InsightsInv'
  <2>1. copying' = [copying EXCEPT ![o] = 0] /\ UNCHANGED <<now, here, deletes, marked>>
    BY <1>7 DEF OpenerDies
  <2>2. copying' \in [Callers -> 0 .. n + 1] /\ \A q \in Callers : copying'[q] = copying[q] \/ copying'[q] = 0
    BY <2>1, <1>0 DEF InsightsInv
  <2>3. TextsHere' = TextsHere /\ OldOnce'
    BY <2>1 DEF InsightsInv, TextsHere, OldOnce, Held
  <2>4. CopiedAreThere'
    BY <2>1, <2>2, <2>3, <1>0 DEF InsightsInv, CopiedAreThere
  <2> QED BY <2>1, <2>2, <2>3, <2>4 DEF InsightsInv, MarkedAreThere
<1>8. CASE Tick
  BY <1>8, <1>1 DEF Tick, InsightsInv
<1>9. CASE StartDump \/ ReadPage \/ StartLoading \/ LoadEntry \/ LoadLinks \/ LoadDies \/ UNCHANGED archiveVars
  BY <1>9, <1>1 DEF StartDump, ReadPage, StartLoading, LoadEntry, LoadLinks, LoadDies, archiveVars, InsightsInv
<1> QED BY <1>2, <1>3, <1>4, <1>5, <1>6, <1>7, <1>8, <1>9 DEF ArchiveNext

-----------------------------------------------------------------------------
(* A journal that is packed and loaded, where no entry is deleted.         *)
(* Of the entries of a journal each has its place in the listing, and each *)
(* place its entry.                                                        *)
LEMMA HeldFinite ==
  ASSUME NEW j
  PROVE  Held(j) \subseteq EntryIds /\ IsFiniteSet(Held(j)) /\ Cardinality(Held(j)) \in Nat
<1>1. 1 \in Int /\ MaxNumber \in Int
  BY ArchiveAssumption
<1>2. Held(j) \in SUBSET EntryIds /\ IsFiniteSet(EntryIds)
  BY <1>1, FS_Interval DEF Held, EntryIds
<1>3. IsFiniteSet(Held(j))
  BY <1>2, FS_Subset
<1> QED BY <1>2, <1>3, FS_CardinalityType

Ahead(i) == {k \in Held(here) : Younger(k, i)}

LEMMA BeforeFinite ==
  ASSUME NEW i
  PROVE  /\ Ahead(i) \in SUBSET Held(here) /\ IsFiniteSet(Ahead(i))
         /\ Cardinality(Ahead(i)) \in Nat /\ AgeRank(i) = Cardinality(Ahead(i)) + 1
<1>1. Ahead(i) \in SUBSET Held(here) /\ IsFiniteSet(Held(here))
  BY HeldFinite DEF Ahead
<1>2. IsFiniteSet(Ahead(i))
  BY <1>1, FS_Subset
<1> QED BY <1>1, <1>2, FS_CardinalityType DEF AgeRank, Ahead

LEMMA TimesAreTimes ==
  ASSUME here \in Journals, NEW i \in Held(here)
  PROVE  i \in Nat /\ here[i] \in Entry /\ here[i].at \in Nat
BY ArchiveAssumption DEF Held, EntryIds, Journals, Entry

LEMMA YoungerOrders ==
  ASSUME here \in Journals, NEW a \in Held(here), NEW b \in Held(here)
  PROVE  /\ ~Younger(a, a) /\ (a # b => Younger(a, b) \/ Younger(b, a))
         /\ \A c \in Held(here) : Younger(a, b) /\ Younger(b, c) => Younger(a, c)
<1>1. a \in Nat /\ b \in Nat /\ here[a].at \in Nat /\ here[b].at \in Nat
  BY TimesAreTimes
<1>2. \A c \in Held(here) : c \in Nat /\ here[c].at \in Nat
  BY TimesAreTimes
<1> QED BY <1>1, <1>2 DEF Younger

LEMMA RanksDiffer ==
  ASSUME here \in Journals, NEW a \in Held(here), NEW b \in Held(here), Younger(a, b)
  PROVE  AgeRank(a) < AgeRank(b)
<1>1. Ahead(a) \in SUBSET Ahead(b) /\ a \in Ahead(b) /\ a \notin Ahead(a)
  BY YoungerOrders DEF Ahead
<1>2. Cardinality(Ahead(a)) <= Cardinality(Ahead(b)) /\ Cardinality(Ahead(a)) # Cardinality(Ahead(b))
  BY <1>1, BeforeFinite, FS_Subset
<1> QED BY <1>2, BeforeFinite

LEMMA RankFits ==
  ASSUME here \in Journals, NEW i \in Held(here)
  PROVE  AgeRank(i) \in 1 .. Cardinality(Held(here))
<1> DEFINE others == Held(here) \ {i}
<1>1. IsFiniteSet(others) /\ Cardinality(others) = Cardinality(Held(here)) - 1
  BY HeldFinite, FS_RemoveElement
<1>2. Ahead(i) \in SUBSET others
  BY YoungerOrders DEF Ahead
<1>3. Cardinality(Ahead(i)) <= Cardinality(others)
  BY <1>1, <1>2, FS_Subset
<1> HIDE DEF others
<1> QED BY <1>1, <1>3, BeforeFinite, HeldFinite

LEMMA ListedWhole ==
  ASSUME here \in Journals
  PROVE  LET n == Cardinality(Held(here))
         IN  /\ \A i, k \in Held(here) : AgeRank(i) = AgeRank(k) => i = k
             /\ \A m \in 1 .. n : \E i \in Held(here) : AgeRank(i) = m
             /\ Newest \in [1 .. n -> Held(here)]
             /\ \A i \in Held(here) : AgeRank(i) \in 1 .. n /\ Newest[AgeRank(i)] = i
<1> DEFINE n == Cardinality(Held(here))
           H == Held(here)
           T == 1 .. n
           f == [i \in H |-> AgeRank(i)]
<1>1. \A i, k \in H : AgeRank(i) = AgeRank(k) => i = k
  <2> SUFFICES ASSUME NEW i \in H, NEW k \in H, i # k PROVE AgeRank(i) # AgeRank(k)
    OBVIOUS
  <2>1. AgeRank(i) < AgeRank(k) \/ AgeRank(k) < AgeRank(i)
    BY YoungerOrders, RanksDiffer
  <2> QED BY <2>1, BeforeFinite
<1>2. \A i \in H : AgeRank(i) \in T
  BY RankFits
<1>3. n \in Nat /\ IsFiniteSet(T) /\ Cardinality(T) = n
  BY HeldFinite, FS_Interval
<1>4. \A m \in T : \E i \in H : AgeRank(i) = m
  <2> HIDE DEF n, H, T
  <2>0. f \in [H -> T] /\ \A i, k \in H : f[i] = f[k] => i = k
    BY <1>1, <1>2
  <2> HIDE DEF f
  <2>1. f \in Injection(H, T)
    BY <2>0 DEF Injection, IsInjective
  <2>2. f \in Surjection(H, T)
    BY <2>1, <1>3, FS_Injection DEF n, H
  <2> QED BY <2>2 DEF Surjection, f
<1>5. Newest = [m \in T |-> CHOOSE i \in H : AgeRank(i) = m]
  BY DEF Newest
<1> HIDE DEF n, H, T
<1>6. Newest \in [T -> H]
  BY <1>4, <1>5
<1>7. \A i \in H : Newest[AgeRank(i)] = i
  BY <1>1, <1>2, <1>5
<1> QED BY <1>1, <1>2, <1>4, <1>6, <1>7 DEF n, H, T

(* What is in a journal stays: entries are added, a flag of one changes.   *)
HereGrows ==
    /\ here \in Journals /\ here' \in Journals
    /\ \A i \in Held(here) :
          /\ i \in Held(here') /\ here'[i].text = here[i].text
          /\ here'[i].at = here[i].at /\ here'[i].links = here[i].links

LEMMA GrowingKeepsRanks ==
  ASSUME HereGrows, NEW i \in Held(here)
  PROVE  AgeRank(i) \in Nat /\ AgeRank(i)' \in Nat /\ AgeRank(i) <= AgeRank(i)'
<1>1. Ahead(i) \in SUBSET Ahead(i)'
  <2> SUFFICES ASSUME NEW k \in Held(here), Younger(k, i) PROVE k \in Ahead(i)'
    BY DEF Ahead
  <2> QED BY DEF HereGrows, Ahead, Younger
<1>2. IsFiniteSet(Ahead(i)') /\ Cardinality(Ahead(i)') \in Nat /\ AgeRank(i)' = Cardinality(Ahead(i)') + 1
  <2> DEFINE H == Held(here')
  <2>1. Ahead(i)' \in SUBSET H
    BY DEF Ahead
  <2>2. IsFiniteSet(H)
    BY HeldFinite
  <2> HIDE DEF H
  <2>3. IsFiniteSet(Ahead(i)')
    BY <2>1, <2>2, FS_Subset
  <2> QED BY <2>3, FS_CardinalityType DEF AgeRank, Ahead
<1>3. Cardinality(Ahead(i)) <= Cardinality(Ahead(i)')
  BY <1>1, <1>2, FS_Subset
<1> QED BY <1>2, <1>3, BeforeFinite

(* Two notes of one text are further apart than the duplicate window.      *)
Apart(j) ==
    \A i, k \in Held(j) :
        i # k /\ j[i].text = j[k].text => j[i].at + Window < j[k].at \/ j[k].at + Window < j[i].at

LEMMA AddedLinks ==
  ASSUME NEW j \in Journals, NEW e \in Entry, HasRoom(j, e)
  PROVE  LET h == Home(j, e)
         IN  /\ Same(j, e) # {} => Added(j, e)[h].links = j[h].links /\ h \in Held(j) /\ j[h].text = e.text
             /\ Same(j, e) = {} => Added(j, e)[h].links = {} /\ h \notin Held(j)
<1> DEFINE h == Home(j, e)
<1>1. h \in EntryIds /\ (Same(j, e) # {} => h \in Same(j, e)) /\ (Same(j, e) = {} => h \notin Held(j))
  BY HomeFits DEF HasRoom
<1>2. Same(j, e) # {} => h \in Held(j) /\ j[h] \in Entry /\ j[h].text = e.text
  BY <1>1 DEF Same, Held, Journals
<1>3. Added(j, e)[h] = IF Same(j, e) # {} THEN Flagged(j[h], e.flag) ELSE [e EXCEPT !.links = {}]
  BY <1>1 DEF Added, Journals
<1> HIDE DEF h
<1>4. Same(j, e) # {} => Flagged(j[h], e.flag).links = j[h].links
  BY <1>2 DEF Flagged, Entry
<1>5. [e EXCEPT !.links = {}].links = {}
  BY DEF Entry
<1> QED BY <1>1, <1>2, <1>3, <1>4, <1>5 DEF h

LEMMA AddingKeepsApart ==
  ASSUME NEW j \in Journals, NEW e \in Entry, HasRoom(j, e), Apart(j), NEW new \in Journals,
         LET h == Home(j, e)
         IN  /\ \A i \in EntryIds : i # h => new[i] = j[i]
             /\ new[h].text = e.text
             /\ new[h].at = IF Same(j, e) # {} THEN j[h].at ELSE e.at
  PROVE  Apart(new)
<1> DEFINE h == Home(j, e)
<1>1. h \in EntryIds /\ Held(new) \subseteq EntryIds /\ Held(j) \subseteq EntryIds
  BY DEF HasRoom, Held
<1>2. ASSUME NEW i \in Held(new), i # h PROVE i \in Held(j) /\ new[i] = j[i]
  BY <1>1, <1>2 DEF Held
<1>3. ASSUME NEW i \in Held(j), i # h, j[i].text = e.text
      PROVE  j[i].at + Window < new[h].at \/ new[h].at + Window < j[i].at
  <2>1. CASE Same(j, e) # {}
    <3>1. h \in Held(j) /\ j[h].text = e.text
      BY <2>1, AddedLinks
    <3> QED BY <1>3, <3>1, <2>1 DEF Apart
  <2>2. CASE Same(j, e) = {}
    <3>1. ~(j[i].at + Window >= e.at)
      BY <2>2, <1>3 DEF Same
    <3>2. j[i].at \in Nat /\ e.at \in Nat /\ Window \in Nat
      BY ArchiveAssumption DEF Held, Journals, Entry
    <3> QED BY <2>2, <3>1, <3>2
  <2> QED BY <2>1, <2>2
<1>4. SUFFICES ASSUME NEW i \in Held(new), NEW k \in Held(new), i # k, new[i].text = new[k].text
               PROVE  new[i].at + Window < new[k].at \/ new[k].at + Window < new[i].at
  BY DEF Apart
<1>5. CASE i # h /\ k # h
  BY <1>5, <1>4, <1>2 DEF Apart
<1>6. CASE i = h
  <2>1. k \in Held(j) /\ k # h /\ new[k] = j[k] /\ j[k].text = e.text
    BY <1>4, <1>6, <1>2
  <2> QED BY <2>1, <1>3, <1>6
<1>7. CASE k = h
  <2>1. i \in Held(j) /\ i # h /\ new[i] = j[i] /\ j[i].text = e.text
    BY <1>4, <1>7, <1>2
  <2> QED BY <2>1, <1>3, <1>7
<1> QED BY <1>5, <1>6, <1>7

LEMMA JournalGrows ==
  ASSUME InsightsInv, Apart(here), deletes' = 0, ArchiveNext \/ UNCHANGED archiveVars
  PROVE  HereGrows /\ Apart(here)' /\ (here' # here => dump.step # "packed" /\ UNCHANGED <<dump, load, loads, there>>)
<1> USE ArchiveAssumption
<1>1. here \in Journals /\ here' \in Journals /\ now \in 0 .. MaxTime /\ deletes \in Nat
  BY InsightsKeep DEF InsightsInv
<1>2. ASSUME here' = here PROVE HereGrows /\ Apart(here)'
  BY <1>1, <1>2 DEF HereGrows, Apart, Held
<1>3. ASSUME NEW e \in Entry, HasRoom(here, e), NEW linked \in SUBSET EntryIds,
             here' = IF Same(here, e) # {} THEN Added(here, e)
                     ELSE [Added(here, e) EXCEPT ![Home(here, e)].links = linked]
      PROVE  HereGrows /\ Apart(here)'
  <2> DEFINE h == Home(here, e)
             j == Added(here, e)
  <2>1. h \in EntryIds
    BY <1>3 DEF HasRoom
  <2>2. /\ j \in Journals /\ j[h] \in Entry
        /\ \A i \in EntryIds : i # h => j[i] = here[i]
        /\ j[h].text = e.text
        /\ j[h].at = IF Same(here, e) # {} THEN here[h].at ELSE e.at
    BY <1>1, <1>3, AddedFits
  <2>3. /\ Same(here, e) # {} => j[h].links = here[h].links /\ h \in Held(here) /\ here[h].text = e.text
        /\ Same(here, e) = {} => h \notin Held(here)
    BY <1>1, <1>3, AddedLinks
  <2>4. /\ Same(here, e) # {} => here' = j
        /\ Same(here, e) = {} => here' = [j EXCEPT ![h].links = linked]
    BY <1>3
  <2>5. \A i \in EntryIds : i # h => here'[i] = here[i]
    <3> HIDE DEF h, j
    <3> QED BY <2>1, <2>2, <2>4 DEF Journals
  <2>6. here'[h].text = e.text /\ here'[h].at = j[h].at /\ here'[h] \in Entry
    <3> HIDE DEF h, j
    <3>1. [j[h] EXCEPT !.links = linked] \in Entry
      BY <2>2 DEF Entry
    <3>2. here'[h] = j[h] \/ here'[h] = [j[h] EXCEPT !.links = linked]
      BY <2>1, <2>2, <2>4 DEF Journals
    <3> QED BY <2>2, <3>1, <3>2 DEF Entry
  <2>7. Apart(here')
    BY <1>1, <1>3, <2>2, <2>5, <2>6, AddingKeepsApart
  <2>8. h \in Held(here')
    BY <2>1, <2>6 DEF Held, Entry, NoEntry
  <2> HIDE DEF h, j
  <2>9. ASSUME NEW i \in Held(here)
        PROVE  /\ i \in Held(here') /\ here'[i].text = here[i].text
               /\ here'[i].at = here[i].at /\ here'[i].links = here[i].links
    <3>1. CASE i # h
      BY <2>5, <3>1 DEF Held
    <3>2. CASE i = h
      BY <2>2, <2>3, <2>4, <2>6, <2>8, <3>2
    <3> QED BY <3>1, <3>2
  <2>10. Apart(here)'
    BY <2>7
  <2> QED BY <1>1, <2>9, <2>10 DEF HereGrows
<1>4. ASSUME NEW t \in Notes, NEW flag \in {"none", "open"}, NEW linked \in {{}} \cup {{i} : i \in EntryIds},
             Write(t, flag, linked)
      PROVE  HereGrows /\ Apart(here)' /\ dump.step # "packed" /\ UNCHANGED <<dump, load, loads, there>>
  <2> DEFINE e == [text |-> t, at |-> now, flag |-> flag, links |-> {}]
  <2>1. e \in Entry /\ HasRoom(here, e) /\ linked \in SUBSET EntryIds
    <3>1. e \in Entry
      BY <1>1 DEF Entry
    <3>2. HasRoom(here, e)
      BY <1>4 DEF Write
    <3> QED BY <3>1, <3>2
  <2>2. /\ here' = IF Same(here, e) # {} THEN Added(here, e)
                   ELSE [Added(here, e) EXCEPT ![Home(here, e)].links = linked]
        /\ dump.step # "packed" /\ UNCHANGED <<dump, load, loads, there>>
    BY <1>4 DEF Write
  <2> HIDE DEF e
  <2> QED BY <1>3, <2>1, <2>2
<1>5. ASSUME NEW o \in Callers, CopyInsight(o)
      PROVE  HereGrows /\ Apart(here)' /\ dump.step # "packed" /\ UNCHANGED <<dump, load, loads, there>>
  <2> DEFINE e == [text |-> OldInsights[copying[o] + 1], at |-> 0, flag |-> "none", links |-> {}]
  <2>1. /\ HasRoom(here, e) /\ here' = Added(here, e) /\ copying[o] < Len(OldInsights)
        /\ dump.step # "packed" /\ UNCHANGED <<dump, load, loads, there>>
    BY <1>5 DEF CopyInsight
  <2>2. copying[o] + 1 \in 1 .. Len(OldInsights)
    BY <2>1 DEF InsightsInv
  <2>3. e \in Entry
    BY <2>2 DEF Entry
  <2>4. Same(here, e) = {} => [Added(here, e) EXCEPT ![Home(here, e)].links = {}] = Added(here, e)
    <3> HIDE DEF e
    <3> DEFINE h == Home(here, e)
               j == Added(here, e)
    <3>1. j \in Journals /\ j[h] \in Entry /\ h \in EntryIds
      BY <1>1, <2>1, <2>3, AddedFits DEF HasRoom
    <3>2. Same(here, e) = {} => j[h].links = {}
      BY <1>1, <2>1, <2>3, AddedLinks
    <3> HIDE DEF j, h
    <3>3. j[h].links = {} => [j[h] EXCEPT !.links = {}] = j[h]
      BY <3>1 DEF Entry
    <3>4. j[h].links = {} => [j EXCEPT ![h].links = {}] = j
      BY <3>1, <3>3 DEF Journals
    <3> QED BY <3>2, <3>4 DEF j, h
  <2> HIDE DEF e
  <2> QED BY <1>3, <2>1, <2>3, <2>4
<1>6. ASSUME NEW i \in EntryIds, CloseEntry(i)
      PROVE  HereGrows /\ Apart(here)' /\ dump.step # "packed" /\ UNCHANGED <<dump, load, loads, there>>
  <2>1. /\ here' = [here EXCEPT ![i].flag = "closed"] /\ here[i].flag = "open"
        /\ dump.step # "packed" /\ UNCHANGED <<dump, load, loads, there>>
    BY <1>6 DEF CloseEntry
  <2>2. here[i] \in Entry
    BY <2>1, <1>1 DEF Journals, NoEntry
  <2>3. ASSUME NEW k \in EntryIds
        PROVE  /\ k \in Held(here') <=> k \in Held(here)
               /\ here'[k].text = here[k].text /\ here'[k].at = here[k].at /\ here'[k].links = here[k].links
    <3>1. CASE k # i
      BY <3>1, <2>1, <1>1 DEF Held, Journals
    <3>2. CASE k = i
      <4>1. here'[i] = [here[i] EXCEPT !.flag = "closed"]
        BY <2>1, <1>1 DEF Journals
      <4>2. [here[i] EXCEPT !.flag = "closed"] \in Entry
        BY <2>2 DEF Entry
      <4> QED BY <3>2, <4>1, <4>2, <2>2 DEF Held, Entry, NoEntry
    <3> QED BY <3>1, <3>2
  <2>4. HereGrows
    BY <1>1, <2>3 DEF HereGrows, Held
  <2>5. Apart(here)'
    BY <2>3 DEF Apart, Held
  <2> QED BY <2>1, <2>4, <2>5
<1>7. ASSUME NEW i \in EntryIds, DropEntry(i) PROVE FALSE
  BY <1>1, <1>7 DEF DropEntry
<1>8. CASE \/ \E o \in Callers : MarkImported(o) \/ OpenerDies(o)
           \/ Tick \/ StartDump \/ ReadPage \/ StartLoading \/ LoadEntry \/ LoadLinks \/ LoadDies
           \/ UNCHANGED archiveVars
  <2>1. here' = here
    BY <1>8 DEF Tick, MarkImported, OpenerDies, StartDump, ReadPage, StartLoading, LoadEntry, LoadLinks, LoadDies,
                archiveVars
  <2> QED BY <2>1, <1>2
<1> QED BY <1>4, <1>5, <1>6, <1>7, <1>8 DEF ArchiveNext

(* What the archive has of an entry is what the entry is, but for its      *)
(* flag, and those that stay are in it or among the pages still to come.   *)
AsHere(a) ==
    /\ a.id \in Held(here) /\ a.e \in Entry
    /\ a.e.text = here[a.id].text /\ a.e.at = here[a.id].at /\ a.e.links = here[a.id].links

InArchive(out) == {out[k].id : k \in 1 .. Len(out)}

DumpTypes == [step : {"rest", "paging", "packed"}, out : Seq([id : EntryIds, e : Entry]), first : Nat, stays : SUBSET EntryIds]

DumpInv ==
    /\ dump \in DumpTypes /\ dump.stays \subseteq Held(here)
    /\ \A k \in 1 .. Len(dump.out) : AsHere(dump.out[k])
    /\ dump.step = "paging" =>
          \A i \in dump.stays : i \in InArchive(dump.out) \/ Len(dump.out) < AgeRank(i)
    /\ dump.step = "packed" => dump.stays \subseteq InArchive(dump.out)

LEMMA ConcatParts ==
  ASSUME NEW R, NEW s \in Seq(R), NEW t \in Seq(R)
  PROVE  /\ s \o t \in Seq(R) /\ Len(s \o t) = Len(s) + Len(t)
         /\ \A k \in 1 .. Len(s) : (s \o t)[k] = s[k]
         /\ \A k \in 1 .. Len(t) : (s \o t)[Len(s) + k] = t[k]
OBVIOUS

LEMMA PageKeepsDump ==
  ASSUME DumpInv, here \in Journals, ReadPage
  PROVE  DumpInv'
<1> USE ArchiveAssumption
<1> DEFINE from == Len(dump.out)
           n == Cardinality(Held(here))
           upto == IF from + PageSize < Len(Newest) THEN from + PageSize ELSE Len(Newest)
           m == IF upto > from THEN upto - from ELSE 0
           page == [k \in 1 .. m |-> [id |-> Newest[from + k], e |-> here[Newest[from + k]]]]
           out == dump.out \o page
           last == Len(out) - from < PageSize \/ Len(out) >= Total
           R == [id : EntryIds, e : Entry]
<1>1. /\ dump.step = "paging" /\ here' = here
      /\ dump' = [dump EXCEPT !.out = IF last THEN Replayed(out) ELSE out, !.step = IF last THEN "packed" ELSE "paging"]
  BY DEF ReadPage
<1>2. n \in Nat /\ Total = n
  BY HeldFinite DEF Total
<1>3. /\ Newest \in [1 .. n -> Held(here)]
      /\ \A i \in Held(here) : AgeRank(i) \in 1 .. n /\ Newest[AgeRank(i)] = i
  BY ListedWhole
<1>4. Len(Newest) = n
  BY <1>2 DEF Newest
<1>5. from \in Nat /\ dump.out \in Seq(R) /\ PageSize \in Nat \ {0}
  BY DEF DumpInv, DumpTypes
<1>6. /\ m \in Nat /\ (m > 0 => from + m <= n)
      /\ \A r \in 1 .. n : from < r => r <= from + m \/ (m = PageSize /\ from + m < n)
  BY <1>2, <1>4, <1>5, SMTT(30)
<1> HIDE DEF m
<1>7. \A k \in 1 .. m : from + k \in 1 .. n
  BY <1>2, <1>5, <1>6
<1> HIDE DEF n
<1>8. \A k \in 1 .. m : /\ page[k] \in R /\ AsHere(page[k])
                        /\ page[k].id = Newest[from + k]
  <2> TAKE k \in 1 .. m
  <2>1. Newest[from + k] \in Held(here)
    BY <1>3, <1>7
  <2>2. Newest[from + k] \in EntryIds /\ here[Newest[from + k]] \in Entry
    BY <2>1 DEF Held, Journals
  <2> QED BY <2>1, <2>2 DEF AsHere
<1>9. page \in Seq(R) /\ Len(page) = m
  <2>1. page \in [1 .. m -> R]
    BY <1>8
  <2> HIDE DEF page, R
  <2> QED BY <2>1, <1>6, FunctionIsSeq
<1> HIDE DEF page, R
<1>10. /\ out \in Seq(R) /\ Len(out) = from + m
       /\ \A k \in 1 .. from : out[k] = dump.out[k]
       /\ \A k \in 1 .. m : out[from + k] = page[k]
  <2>1. dump.out \in Seq(R) /\ page \in Seq(R)
    BY <1>5, <1>9
  <2>2. /\ dump.out \o page \in Seq(R) /\ Len(dump.out \o page) = Len(dump.out) + Len(page)
        /\ \A k \in 1 .. Len(dump.out) : (dump.out \o page)[k] = dump.out[k]
        /\ \A k \in 1 .. Len(page) : (dump.out \o page)[Len(dump.out) + k] = page[k]
    BY <2>1, ConcatParts
  <2> QED BY <2>2, <1>9 DEF out, from
<1> HIDE DEF out, from
<1>11. \A k \in 1 .. from + m : AsHere(out[k])
  <2> TAKE k \in 1 .. from + m
  <2>1. CASE k \in 1 .. from
    BY <2>1, <1>10 DEF DumpInv, from
  <2>2. CASE k \notin 1 .. from
    <3>1. k - from \in 1 .. m /\ k = from + (k - from)
      BY <2>2, <1>5, <1>6
    <3>2. out[k] = page[k - from]
      BY <3>1, <1>10
    <3> QED BY <3>1, <3>2, <1>8
  <2> QED BY <2>1, <2>2
<1>12. \A i \in dump.stays : i \in InArchive(out) \/ from + m < AgeRank(i)
  <2> SUFFICES ASSUME NEW i \in dump.stays, ~(from + m < AgeRank(i)) PROVE i \in InArchive(out)
    OBVIOUS
  <2>1. i \in Held(here) /\ (i \in InArchive(dump.out) \/ from < AgeRank(i))
    BY <1>1 DEF DumpInv, from
  <2>2. CASE i \in InArchive(dump.out)
    <3>1. PICK k \in 1 .. from : dump.out[k].id = i
      BY <2>2 DEF InArchive, from
    <3>2. k \in 1 .. Len(out) /\ out[k].id = i
      BY <3>1, <1>5, <1>6, <1>10
    <3> QED BY <3>2 DEF InArchive
  <2>3. CASE from < AgeRank(i)
    <3>1. AgeRank(i) \in Nat
      BY BeforeFinite
    <3>2. AgeRank(i) - from \in 1 .. m /\ from + (AgeRank(i) - from) = AgeRank(i)
      BY <3>1, <2>3, <1>5, <1>6
    <3> DEFINE k == AgeRank(i) - from
    <3>3. page[k].id = Newest[from + k] /\ out[from + k] = page[k]
      BY <3>2, <1>8, <1>10
    <3>4. Newest[AgeRank(i)] = i /\ from + k = AgeRank(i)
      BY <3>2, <2>1, <1>3
    <3>5. AgeRank(i) \in 1 .. Len(out)
      BY <3>1, <3>2, <1>5, <1>6, <1>10
    <3>6. out[AgeRank(i)].id = i
      BY <3>3, <3>4
    <3> QED BY <3>5, <3>6 DEF InArchive
  <2> QED BY <2>1, <2>2, <2>3
<1>13. ASSUME last PROVE dump.stays \subseteq InArchive(out)
  <2> SUFFICES ASSUME NEW i \in dump.stays, from + m < AgeRank(i) PROVE FALSE
    BY <1>12
  <2>1. AgeRank(i) \in 1 .. n /\ from < AgeRank(i)
    BY <1>3, <1>5, <1>6 DEF DumpInv
  <2>2. m = PageSize /\ from + m < n
    BY <2>1, <1>2, <1>5, <1>6
  <2> QED BY <1>13, <2>2, <1>2, <1>5, <1>10
<1>14. /\ Replayed(out) \in Seq(R) /\ Len(Replayed(out)) = from + m
       /\ \A k \in 1 .. from + m : Replayed(out)[k] = out[from + m + 1 - k]
  <2>1. Replayed(out) = [k \in 1 .. Len(out) |-> out[(Len(out) - k) + 1]]
    BY DEF Replayed, Reverse
  <2>2. ASSUME NEW k \in 1 .. from + m
        PROVE  /\ Replayed(out)[k] = out[from + m + 1 - k]
               /\ Replayed(out)[k] \in R
    <3>1. /\ k \in 1 .. Len(out) /\ (Len(out) - k) + 1 = from + m + 1 - k
          /\ from + m + 1 - k \in 1 .. Len(out)
      BY <1>5, <1>6, <1>10
    <3>2. Replayed(out)[k] = out[(Len(out) - k) + 1]
      BY <2>1, <3>1
    <3> QED BY <3>1, <3>2, <1>10
  <2>3. DOMAIN Replayed(out) = 1 .. from + m /\ from + m \in Nat
    BY <2>1, <1>5, <1>6, <1>10
  <2>4. Replayed(out) \in [1 .. from + m -> R]
    BY <2>1, <2>2, <2>3
  <2> QED BY <2>2, <2>3, <2>4, FunctionIsSeq
<1>15. \A k \in 1 .. from + m : from + m + 1 - k \in 1 .. from + m /\ from + m + 1 - (from + m + 1 - k) = k
  BY <1>5, <1>6
<1>16. InArchive(Replayed(out)) = InArchive(out)
  <2>1. ASSUME NEW k \in 1 .. from + m PROVE out[k].id \in InArchive(Replayed(out)) /\ Replayed(out)[k].id \in InArchive(out)
    BY <1>10, <1>14, <1>15, SMTT(30) DEF InArchive
  <2> QED BY <2>1, <1>10, <1>14 DEF InArchive
<1>17. \A k \in 1 .. from + m : AsHere(Replayed(out)[k])
  BY <1>11, <1>14, <1>15
<1>18. CASE last
  <2>1. dump' = [dump EXCEPT !.out = Replayed(out), !.step = "packed"]
    BY <1>1, <1>18
  <2> HIDE DEF last
  <2>2. dump' \in DumpTypes /\ dump'.out = Replayed(out) /\ dump'.step = "packed" /\ dump'.stays = dump.stays
    BY <2>1, <1>14 DEF DumpInv, DumpTypes, R
  <2>3. (\A k \in 1 .. Len(dump.out) : AsHere(dump.out[k]))'
    BY <2>2, <1>1, <1>14, <1>17 DEF AsHere
  <2>4. dump'.stays \subseteq InArchive(dump'.out) /\ dump'.stays \subseteq Held(here')
    BY <2>2, <1>1, <1>13, <1>16, <1>18 DEF DumpInv
  <2> QED BY <2>2, <2>3, <2>4 DEF DumpInv
<1>19. CASE ~last
  <2>1. dump' = [dump EXCEPT !.out = out, !.step = "paging"]
    BY <1>1, <1>19
  <2> HIDE DEF last
  <2>2. dump' \in DumpTypes /\ dump'.out = out /\ dump'.step = "paging" /\ dump'.stays = dump.stays
    BY <2>1, <1>10 DEF DumpInv, DumpTypes, R
  <2>3. (\A k \in 1 .. Len(dump.out) : AsHere(dump.out[k]))'
    BY <2>2, <1>1, <1>10, <1>11 DEF AsHere
  <2>4. (\A i \in dump.stays : i \in InArchive(dump.out) \/ Len(dump.out) < AgeRank(i))'
    <3>1. \A i \in dump.stays : AgeRank(i)' = AgeRank(i)
      BY <1>1 DEF AgeRank, Younger, Held
    <3> QED BY <2>2, <3>1, <1>10, <1>12
  <2>5. dump'.stays \subseteq Held(here')
    BY <2>2, <1>1 DEF DumpInv
  <2> QED BY <2>2, <2>3, <2>4, <2>5 DEF DumpInv
<1> QED BY <1>18, <1>19

LEMMA GrowingKeepsDump ==
  ASSUME DumpInv, HereGrows, UNCHANGED dump
  PROVE  DumpInv'
<1>1. dump.stays \subseteq Held(here')
  BY DEF DumpInv, HereGrows
<1>2. \A k \in 1 .. Len(dump.out) : AsHere(dump.out[k])'
  BY DEF DumpInv, HereGrows, AsHere
<1>3. ASSUME NEW i \in dump.stays, Len(dump.out) < AgeRank(i) PROVE Len(dump.out) < AgeRank(i)'
  <2>1. i \in Held(here) /\ AgeRank(i) <= AgeRank(i)'
    BY GrowingKeepsRanks DEF DumpInv
  <2>2. AgeRank(i) \in Nat /\ AgeRank(i)' \in Nat /\ Len(dump.out) \in Nat
    BY <2>1, GrowingKeepsRanks DEF DumpInv, DumpTypes
  <2> QED BY <1>3, <2>1, <2>2
<1> QED BY <1>1, <1>2, <1>3 DEF DumpInv

LEMMA DumpKeeps ==
  ASSUME InsightsInv, Apart(here), DumpInv, deletes' = 0, ArchiveNext \/ UNCHANGED archiveVars
  PROVE  DumpInv'
<1>1. HereGrows /\ here \in Journals
  BY JournalGrows DEF InsightsInv
<1>2. CASE UNCHANGED dump
  BY <1>1, <1>2, GrowingKeepsDump
<1>3. CASE StartDump
  <2>1. /\ Held(here) # {} /\ here' = here
        /\ dump' = [step |-> "paging", out |-> <<>>, first |-> Cardinality(Held(here)), stays |-> Held(here)]
    BY <1>3 DEF StartDump
  <2>2. dump' \in DumpTypes
    BY <2>1, HeldFinite DEF DumpTypes
  <2>3. Len(dump'.out) = 0 /\ dump'.step = "paging" /\ dump'.stays = Held(here)
    BY <2>1
  <2>4. ASSUME NEW i \in dump'.stays PROVE 0 < AgeRank(i)'
    <3>1. AgeRank(i)' = AgeRank(i)
      BY <2>1 DEF AgeRank, Younger, Held
    <3> QED BY <3>1, BeforeFinite
  <2> QED BY <2>1, <2>2, <2>3, <2>4 DEF DumpInv
<1>4. CASE ReadPage
  BY <1>1, <1>4, PageKeepsDump
<1>5. ASSUME NEW i \in EntryIds, DropEntry(i) PROVE FALSE
  BY <1>5 DEF DropEntry, InsightsInv
<1> QED BY <1>2, <1>3, <1>4, <1>5 DEF ArchiveNext, archiveVars, Tick, Write, CloseEntry, CopyInsight, MarkImported,
        OpenerDies, StartLoading, LoadEntry, LoadLinks, LoadDies

LEMMA DumpIsWhole == DumpInv => DumpWhole
<1> SUFFICES ASSUME DumpInv, dump.step = "packed", NEW i \in dump.stays
             PROVE  i \in {a.id : a \in ToSet(dump.out)}
  BY DEF DumpWhole
<1>1. PICK k \in 1 .. Len(dump.out) : dump.out[k].id = i
  BY DEF DumpInv, InArchive
<1>2. DOMAIN dump.out = 1 .. Len(dump.out)
  BY DEF DumpInv, DumpTypes
<1> QED BY <1>1, <1>2 DEF ToSet

(* What the first load has written so far: an entry of the archive landed  *)
(* where its text and time are, two entries not in one place, and nothing  *)
(* else is there; copies of an entry may differ in their flag only.        *)
Landing(k) == load.ids[dump.out[k].id]

Landed(n) ==
    /\ \A k \in 1 .. n :
          /\ Landing(k) \in Held(there)
          /\ there[Landing(k)].text = dump.out[k].e.text /\ there[Landing(k)].at = dump.out[k].e.at
    /\ \A k, m \in 1 .. n : Landing(k) = Landing(m) => dump.out[k].id = dump.out[m].id
    /\ \A i \in Held(there) : there[i].links = {} /\ \E k \in 1 .. n : Landing(k) = i
    /\ \A k \in 1 .. n : \/ there[Landing(k)].flag = dump.out[k].e.flag
                         \/ \E m \in 1 .. n : dump.out[m].id = dump.out[k].id /\ dump.out[m] # dump.out[k]

LoadTypes == [step : {"rest", "entries", "links", "done"}, n : Nat, ids : [EntryIds -> 0 .. MaxNumber], again : BOOLEAN]

LoadInv ==
    /\ load \in LoadTypes /\ there \in Journals /\ loads \in Nat
    /\ loads = 0 => load.step = "rest" /\ Held(there) = {}
    /\ load.step # "rest" => dump.step = "packed"
    /\ load.step = "entries" => load.n \in 1 .. Len(dump.out)
    /\ load.step = "links" => load.n = Len(dump.out) + 1
    /\ load.step \in {"entries", "links"} => \A k \in 1 .. load.n - 1 : Landing(k) \in Held(there)
    /\ loads = 1 /\ load.step \in {"entries", "links"} /\ OldestFirst => Landed(load.n - 1)
    /\ LoadKeeps

(* In an archive in order a note is folded into its own copy only.         *)
LEMMA FoldedIntoItself ==
  ASSUME DumpInv, LoadInv, here \in Journals, Apart(here), NEW N \in Nat, N + 1 <= Len(dump.out), Landed(N), OldestFirst,
         dump.step = "packed"
  PROVE  LET a == dump.out[N + 1]
         IN  Same(there, a.e) = {Landing(k) : k \in {m \in 1 .. N : dump.out[m].id = a.id}}
<1> USE ArchiveAssumption
<1> DEFINE out == dump.out
           a == out[N + 1]
<1>1. Len(out) \in Nat /\ DOMAIN out = 1 .. Len(out)
  BY DEF DumpInv, DumpTypes
<1>2. \A k \in 1 .. N + 1 : k \in 1 .. Len(out) /\ AsHere(out[k])
  BY <1>1 DEF DumpInv
<1>3. \A k \in 1 .. N + 1 : /\ out[k].e.at \in Nat /\ out[k].id \in Held(here)
                            /\ out[k].e.at = here[out[k].id].at /\ out[k].e.text = here[out[k].id].text
  BY <1>2 DEF AsHere, Entry
<1>4. Window \in Nat /\ N + 1 \in 1 .. N + 1
  OBVIOUS
<1> HIDE DEF out
<1>5. ASSUME NEW i \in Same(there, a.e) PROVE \E k \in 1 .. N : out[k].id = a.id /\ Landing(k) = i
  <2>1. i \in Held(there) /\ there[i].text = a.e.text /\ there[i].at + Window >= a.e.at
    BY <1>5 DEF Same
  <2>2. PICK k \in 1 .. N : Landing(k) = i
    BY <2>1 DEF Landed
  <2>3. there[i].text = out[k].e.text /\ there[i].at = out[k].e.at
    BY <2>2 DEF Landed, out
  <2>4. k \in 1 .. N + 1 /\ k < N + 1 /\ k \in DOMAIN out /\ N + 1 \in DOMAIN out
    BY <1>1, <1>2
  <2>5. NotYounger(out[k], a)
    BY <2>4 DEF OldestFirst, out
  <2>6. out[k].e.at <= a.e.at /\ out[k].e.at \in Nat /\ a.e.at \in Nat
    BY <2>4, <2>5, <1>3, <1>4 DEF NotYounger
  <2>7. out[k].e.at + Window >= a.e.at /\ out[k].e.text = a.e.text
    BY <2>1, <2>3
  <2> HIDE DEF a
  <2>8. out[k].id = a.id
    <3> SUFFICES ASSUME out[k].id # a.id PROVE FALSE
      OBVIOUS
    <3>1. /\ out[k].id \in Held(here) /\ out[k].e.at = here[out[k].id].at /\ out[k].e.text = here[out[k].id].text
          /\ a.id \in Held(here) /\ a.e.at = here[a.id].at /\ a.e.text = here[a.id].text
      BY <2>4, <1>3, <1>4 DEF a
    <3>2. out[k].e.at + Window < a.e.at \/ a.e.at + Window < out[k].e.at
      BY <3>1, <2>7 DEF Apart
    <3>3. \A x, y, w \in Nat : x <= y /\ x + w >= y => ~(x + w < y) /\ ~(y + w < x)
      OBVIOUS
    <3> QED BY <3>2, <3>3, <2>6, <2>7, <1>4, Zenon
  <2> QED BY <2>2, <2>8
<1>6. ASSUME NEW k \in 1 .. N, out[k].id = a.id PROVE Landing(k) \in Same(there, a.e)
  <2>1. k \in 1 .. N + 1
    OBVIOUS
  <2>2. out[k].e.at = a.e.at /\ out[k].e.text = a.e.text /\ a.e.at \in Nat
    BY <2>1, <1>3, <1>4, <1>6
  <2>3. /\ Landing(k) \in Held(there)
        /\ there[Landing(k)].text = a.e.text /\ there[Landing(k)].at = a.e.at
    BY <2>2 DEF Landed, out
  <2> QED BY <2>2, <2>3, <1>4 DEF Same
<1> QED BY <1>5, <1>6 DEF out

LEMMA EntryLands ==
  ASSUME DumpInv, LoadInv, here \in Journals, Apart(here), loads = 1, OldestFirst, LoadEntry
  PROVE  Landed(load.n - 1)'
<1> USE ArchiveAssumption
<1> DEFINE out == dump.out
           N == load.n - 1
           a == out[load.n]
           e == a.e
           h == Home(there, e)
<1>1. /\ load.step = "entries" /\ HasRoom(there, e) /\ there' = Added(there, e) /\ dump' = dump
      /\ load' = [load EXCEPT !.step = IF load.n = Len(out) THEN "links" ELSE "entries",
                              !.n = @ + 1, !.ids[a.id] = h]
  BY DEF LoadEntry
<1>2. /\ Len(out) \in Nat /\ load.n \in 1 .. Len(out) /\ N \in Nat /\ N + 1 = load.n
      /\ dump.step = "packed" /\ Landed(N) /\ there \in Journals
  BY <1>1, SMTT(30) DEF LoadInv, DumpInv, DumpTypes
<1>3. a.id \in EntryIds /\ e \in Entry
  BY <1>2 DEF DumpInv, AsHere, Held
<1>4. load' = [step |-> load'.step, n |-> load.n + 1, ids |-> [load.ids EXCEPT ![a.id] = h], again |-> load.again]
      /\ load.ids \in [EntryIds -> 0 .. MaxNumber] /\ load'.n = load.n + 1 /\ load'.ids = [load.ids EXCEPT ![a.id] = h]
  BY <1>1 DEF LoadInv, LoadTypes
<1>5. Same(there, e) = {Landing(k) : k \in {m \in 1 .. N : out[m].id = a.id}}
  <2>1. N + 1 <= Len(dump.out) /\ a = dump.out[N + 1]
    BY <1>2
  <2> HIDE DEF N
  <2> QED BY <1>2, <2>1, FoldedIntoItself
<1>6. /\ Added(there, e) \in Journals /\ h \in EntryIds
      /\ \A i \in EntryIds : i # h => Added(there, e)[i] = there[i]
      /\ Added(there, e)[h].text = e.text
      /\ Added(there, e)[h].at = IF Same(there, e) # {} THEN there[h].at ELSE e.at
      /\ Added(there, e)[h] \in Entry
      /\ Same(there, e) # {} => h \in Same(there, e) /\ Added(there, e)[h].links = there[h].links
      /\ Same(there, e) = {} => h \notin Held(there) /\ Added(there, e)[h].links = {}
  <2> HIDE DEF e
  <2>1. there \in Journals /\ e \in Entry /\ HasRoom(there, e) /\ h \in EntryIds
    BY <1>1, <1>2, <1>3 DEF HasRoom
  <2>2. /\ Added(there, e) \in Journals
        /\ \A i \in EntryIds : i # h => Added(there, e)[i] = there[i]
        /\ Added(there, e)[h].text = e.text
        /\ Added(there, e)[h].at = IF Same(there, e) # {} THEN there[h].at ELSE e.at
        /\ Added(there, e)[h] \in Entry
    BY <2>1, AddedFits
  <2>3. /\ Same(there, e) # {} => Added(there, e)[h].links = there[h].links
        /\ Same(there, e) = {} => h \notin Held(there) /\ Added(there, e)[h].links = {}
    BY <2>1, AddedLinks
  <2>4. Same(there, e) # {} => h \in Same(there, e)
    BY <2>1, HomeFits
  <2> QED BY <2>1, <2>2, <2>3, <2>4
<1>7. /\ Same(there, e) # {} => there'[h] = Flagged(there[h], e.flag)
      /\ Same(there, e) = {} => there'[h].flag = e.flag
  <2>1. there'[h] = IF Same(there, e) # {} THEN Flagged(there[h], e.flag) ELSE [e EXCEPT !.links = {}]
    BY <1>1, <1>2, <1>6 DEF Added, Journals
  <2> QED BY <2>1, <1>3 DEF Entry
<1>8. \A k \in 1 .. N : out[k].id \in EntryIds
  BY <1>2, SMTT(30) DEF DumpInv, AsHere, Held
<1>9. /\ \A k \in 1 .. N : out[k].id # a.id => Landing(k)' = Landing(k)
      /\ \A k \in 1 .. load.n : out[k].id = a.id => Landing(k)' = h
  BY <1>1, <1>3, <1>4, <1>8, SMTT(30) DEF Landing
<1>10. /\ h \in Held(there') /\ there'[h].text = e.text /\ there'[h].at = e.at /\ there'[h].links = {}
  <2>1. h \in Held(there')
    <3>1. there'[h] \in Entry
      BY <1>1, <1>6
    <3>2. NoEntry \notin Entry
      BY DEF NoEntry, Entry
    <3> QED BY <3>1, <3>2, <1>6 DEF Held
  <2>2. CASE Same(there, e) # {}
    <3>1. PICK k \in 1 .. N : Landing(k) = h /\ out[k].id = a.id
      BY <2>2, <1>5, <1>6
    <3>2. out[k].e.at = e.at
      <4>1. k \in 1 .. Len(out)
        BY <1>2
      <4> QED BY <3>1, <4>1, <1>2 DEF DumpInv, AsHere
    <3>3. there[h].at = e.at /\ there[h].links = {}
      BY <3>1, <3>2, <1>2 DEF Landed
    <3> QED BY <2>1, <2>2, <3>3, <1>1, <1>6
  <2>3. CASE Same(there, e) = {}
    BY <2>1, <2>3, <1>1, <1>6
  <2> QED BY <2>2, <2>3
<1>11. \A i \in EntryIds : i # h => there'[i] = there[i] /\ (i \in Held(there') <=> i \in Held(there))
  BY <1>1, <1>6 DEF Held
<1>12. ASSUME NEW k \in 1 .. N, out[k].id # a.id
       PROVE  Landing(k)' = Landing(k) /\ Landing(k) # h /\ Landing(k) \in Held(there) /\ Landing(k) \in EntryIds
  <2>1. Landing(k) \in Held(there) /\ Landing(k) \in EntryIds
    BY <1>2 DEF Landed, Held
  <2>2. Landing(k) # h
    <3>1. CASE Same(there, e) = {}
      BY <3>1, <2>1, <1>6
    <3>2. CASE Same(there, e) # {}
      <4>1. PICK m \in 1 .. N : Landing(m) = h /\ out[m].id = a.id
        BY <3>2, <1>5, <1>6
      <4> QED BY <4>1, <1>12, <1>2 DEF Landed
    <3> QED BY <3>1, <3>2
  <2> QED BY <2>1, <2>2, <1>9, <1>12
<1> HIDE DEF h, e, a, out, N
<1>13. ASSUME NEW k \in 1 .. load.n PROVE k \in 1 .. N \/ (k = load.n /\ out[k].id = a.id)
  BY <1>2 DEF a
<1>14. ASSUME NEW k \in 1 .. load.n
       PROVE  /\ Landing(k)' \in Held(there')
              /\ there'[Landing(k)'].text = out[k].e.text /\ there'[Landing(k)'].at = out[k].e.at
  <2>1. CASE out[k].id # a.id
    BY <2>1, <1>2, <1>11, <1>12, <1>13 DEF Landed, out
  <2>2. CASE out[k].id = a.id
    <3>1. out[k].e.text = e.text /\ out[k].e.at = e.at
      <4>1. k \in 1 .. Len(out)
        BY <1>2
      <4> QED BY <2>2, <4>1, <1>2 DEF DumpInv, AsHere, out, a, e
    <3> QED BY <2>2, <3>1, <1>9, <1>10
  <2> QED BY <2>1, <2>2
<1>15. ASSUME NEW k \in 1 .. load.n, NEW m \in 1 .. load.n, Landing(k)' = Landing(m)' PROVE out[k].id = out[m].id
  <2>1. CASE out[k].id # a.id /\ out[m].id # a.id
    BY <2>1, <1>2, <1>12, <1>13, <1>15 DEF Landed, out
  <2>2. CASE out[k].id = a.id \/ out[m].id = a.id
    BY <2>2, <1>9, <1>12, <1>13, <1>15
  <2> QED BY <2>1, <2>2
<1>16. ASSUME NEW i \in Held(there') PROVE there'[i].links = {} /\ \E k \in 1 .. load.n : Landing(k)' = i
  <2>1. CASE i = h
    <3>1. load.n \in 1 .. load.n /\ out[load.n].id = a.id
      BY <1>2 DEF a
    <3> QED BY <2>1, <3>1, <1>9, <1>10
  <2>2. CASE i # h
    <3>1. i \in Held(there) /\ there'[i] = there[i]
      BY <2>2, <1>11 DEF Held
    <3>2. there[i].links = {} /\ \E k \in 1 .. N : Landing(k) = i
      BY <3>1, <1>2 DEF Landed
    <3>3. PICK k \in 1 .. N : Landing(k) = i
      BY <3>2
    <3>4. out[k].id # a.id
      <4>1. out[k].id = a.id => Landing(k) \in Same(there, e)
        BY <1>5
      <4>2. \A x, y \in Same(there, e) : x = y
        <5> SUFFICES ASSUME NEW x \in Same(there, e), NEW y \in Same(there, e) PROVE x = y
          OBVIOUS
        <5>1. PICK p, q \in 1 .. N : x = Landing(p) /\ y = Landing(q) /\ out[p].id = a.id /\ out[q].id = a.id
          BY <1>5
        <5> QED BY <5>1 DEF Landing, out
      <4> QED BY <4>1, <4>2, <3>3, <2>2, <1>6
    <3>5. k \in 1 .. load.n
      BY <1>2
    <3> QED BY <3>1, <3>2, <3>3, <3>4, <3>5, <1>12
  <2> QED BY <2>1, <2>2
<1>17. ASSUME NEW k \in 1 .. load.n,
              \A m \in 1 .. load.n : out[m].id = out[k].id => out[m] = out[k]
       PROVE  there'[Landing(k)'].flag = out[k].e.flag
  <2>1. \A m \in 1 .. N : m \in 1 .. load.n
    BY <1>2
  <2>2. ASSUME NEW m \in 1 .. N, out[m].id = out[k].id PROVE there[Landing(m)].flag = out[k].e.flag
    <3>1. out[m] = out[k]
      BY <2>1, <2>2, <1>17
    <3>2. ASSUME NEW p \in 1 .. N, out[p].id = out[m].id, out[p] # out[m] PROVE FALSE
      BY <2>1, <2>2, <3>1, <3>2, <1>17
    <3>3. there[Landing(m)].flag = out[m].e.flag
      BY <3>2, <1>2 DEF Landed, out
    <3> QED BY <3>1, <3>3
  <2>3. CASE out[k].id # a.id
    <3>1. k \in 1 .. N
      BY <2>3, <1>13
    <3> QED BY <2>2, <2>3, <3>1, <1>11, <1>12
  <2>4. CASE out[k].id = a.id
    <3>1. load.n \in 1 .. load.n /\ out[load.n] = a
      BY <1>2 DEF a
    <3>2. e.flag = out[k].e.flag
      BY <2>4, <3>1, <1>17 DEF e
    <3>3. CASE Same(there, e) = {}
      BY <3>2, <3>3, <2>4, <1>7, <1>9
    <3>4. CASE Same(there, e) # {}
      <4>1. PICK m \in 1 .. N : Landing(m) = h /\ out[m].id = a.id
        BY <3>4, <1>5, <1>6
      <4>2. there[h].flag = e.flag
        BY <4>1, <2>2, <2>4, <3>2
      <4>3. there[h] \in Entry
        BY <3>4, <1>2, <1>6 DEF Same, Held, Journals
      <4>4. Flagged(there[h], e.flag).flag = e.flag
        BY <4>2, <4>3 DEF Flagged, Entry
      <4> QED BY <3>2, <3>4, <4>4, <2>4, <1>7, <1>9
    <3> QED BY <3>3, <3>4
  <2> QED BY <2>3, <2>4
<1> QED
  <2>1. dump'.out = out /\ load'.n - 1 = load.n
    BY <1>1, <1>2, <1>4 DEF out
  <2>2. \A k \in 1 .. load'.n - 1 :
          /\ Landing(k)' \in Held(there')
          /\ there'[Landing(k)'].text = dump'.out[k].e.text /\ there'[Landing(k)'].at = dump'.out[k].e.at
    BY <2>1, <1>14
  <2>3. \A k, m \in 1 .. load'.n - 1 : Landing(k)' = Landing(m)' => dump'.out[k].id = dump'.out[m].id
    BY <2>1, <1>15
  <2>4. \A i \in Held(there') : there'[i].links = {} /\ \E k \in 1 .. load'.n - 1 : Landing(k)' = i
    BY <2>1, <1>16
  <2>5. \A k \in 1 .. load'.n - 1 :
          \/ there'[Landing(k)'].flag = dump'.out[k].e.flag
          \/ \E m \in 1 .. load'.n - 1 : dump'.out[m].id = dump'.out[k].id /\ dump'.out[m] # dump'.out[k]
    BY <2>1, <1>17
  <2> QED BY <2>2, <2>3, <2>4, <2>5 DEF Landed

(* The links come when every entry has its place.                          *)
LEMMA LinksLand ==
  ASSUME DumpInv, LoadInv, LoadLinks
  PROVE  LoadKeeps'
<1> USE ArchiveAssumption
<1> DEFINE out == dump.out
           n == Len(out)
           new(i) == UNION {Renumbered(a) : a \in {b \in ToSet(out) : load.ids[b.id] = i}}
<1>1. /\ load.step = "links" /\ load' = [load EXCEPT !.step = "done"] /\ UNCHANGED <<dump, loads>>
      /\ there' = [i \in EntryIds |-> [there[i] EXCEPT !.links = @ \cup new(i)]]
  BY DEF LoadLinks
<1>2. load'.ids = load.ids /\ load.n = n + 1 /\ n \in Nat /\ load.n - 1 = n /\ DOMAIN out = 1 .. n
      /\ ToSet(out) = {out[k] : k \in 1 .. n}
  <2>1. load'.ids = load.ids /\ load.n = n + 1
    BY <1>1 DEF LoadInv, LoadTypes
  <2>2. n \in Nat /\ DOMAIN out = 1 .. n
    BY DEF DumpInv, DumpTypes
  <2> HIDE DEF out, n
  <2>3. ToSet(out) = {out[k] : k \in 1 .. n}
    BY <2>2 DEF ToSet
  <2> QED BY <2>1, <2>2, <2>3
<1>3. OldestFirst' <=> OldestFirst
  BY <1>1 DEF OldestFirst, NotYounger
<1>4. SUFFICES ASSUME loads = 1, OldestFirst, NEW a \in ToSet(out) PROVE ComesBack(a)'
  BY <1>1, <1>3 DEF LoadKeeps
<1>5. Landed(n)
  BY <1>1, <1>2, <1>4 DEF LoadInv
<1> HIDE DEF n
<1>6. PICK k \in 1 .. n : a = out[k]
  BY <1>2
<1> DEFINE h == Landing(k)
<1>7. h = load.ids[a.id] /\ h \in Held(there) /\ h \in EntryIds
  BY <1>5, <1>6 DEF Landed, Landing, Held
<1>8. there[h].text = a.e.text /\ there[h].at = a.e.at /\ there[h].links = {} /\ there[h] \in Entry
  BY <1>5, <1>6, <1>7 DEF Landed, LoadInv, Journals, Held
<1> HIDE DEF h
<1>9. \A b \in ToSet(out) : load.ids[b.id] = h => b.id = a.id
  <2> SUFFICES ASSUME NEW b \in ToSet(out), load.ids[b.id] = h PROVE b.id = a.id
    OBVIOUS
  <2>1. PICK m \in 1 .. n : b = out[m]
    BY <1>2
  <2>2. Landing(m) = Landing(k)
    BY <2>1, <1>6, <1>7 DEF Landing
  <2> QED BY <2>1, <2>2, <1>5, <1>6 DEF Landed
<1>10. \A b \in ToSet(out) : load.ids[b.id] = h => Renumbered(b) = Renumbered(a)
  <2> SUFFICES ASSUME NEW b \in ToSet(out), load.ids[b.id] = h PROVE Renumbered(b) = Renumbered(a)
    OBVIOUS
  <2>1. PICK m \in 1 .. n : b = out[m]
    BY <1>2
  <2>2. AsHere(a) /\ AsHere(b) /\ b.id = a.id
    BY <2>1, <1>6, <1>9 DEF DumpInv, n
  <2>3. b.e.links = a.e.links
    BY <2>2 DEF AsHere
  <2> QED BY <2>2, <2>3 DEF Renumbered
<1>11. new(h) = Renumbered(a)
  BY <1>7, <1>10
<1> HIDE DEF new
<1>12. there'[h] = [there[h] EXCEPT !.links = {} \cup Renumbered(a)]
  BY <1>1, <1>7, <1>8, <1>11
<1>13. /\ there'[h].text = a.e.text /\ there'[h].at = a.e.at /\ there'[h].links = Renumbered(a)
       /\ there'[h].flag = there[h].flag
  BY <1>8, <1>12 DEF Entry
<1>14. there[h].flag = a.e.flag \/ \E b \in ToSet(out) : b.id = a.id /\ b # a
  <2>1. there[h].flag = out[k].e.flag \/ \E m \in 1 .. n : out[m].id = out[k].id /\ out[m] # out[k]
    BY <1>5 DEF Landed, h
  <2> QED BY <2>1, <1>2, <1>6
<1>15. Renumbered(a)' = Renumbered(a) /\ there'[load'.ids[a.id]] = there'[h] /\ dump'.out = out
  BY <1>1, <1>2, <1>7 DEF Renumbered
<1> HIDE DEF out
<1> QED BY <1>2, <1>7, <1>9, <1>13, <1>14, <1>15 DEF ComesBack

LEMMA RestKeepsLoad ==
  ASSUME LoadInv, UNCHANGED <<there, load, loads>>, dump.step = "packed" => UNCHANGED dump
  PROVE  LoadInv'
<1>1. CASE dump.step = "packed"
  <2>1. UNCHANGED <<there, load, loads, dump>>
    BY <1>1
  <2>2. OldestFirst' <=> OldestFirst
    BY <2>1 DEF OldestFirst, NotYounger
  <2>3. LoadKeeps' <=> LoadKeeps
    <3>1. \A a : ComesBack(a)' <=> ComesBack(a)
      BY <2>1 DEF ComesBack, Renumbered
    <3> QED BY <2>1, <2>2, <3>1 DEF LoadKeeps
  <2>4. Landed(load.n - 1)' <=> Landed(load.n - 1)
    BY <2>1 DEF Landed, Landing, Held
  <2>5. \A k : Landing(k)' = Landing(k)
    BY <2>1 DEF Landing
  <2> QED BY <2>1, <2>2, <2>3, <2>4, <2>5 DEF LoadInv, Held
<1>2. CASE dump.step # "packed"
  <2>1. load.step = "rest" /\ load'.step = "rest"
    BY <1>2 DEF LoadInv
  <2> QED BY <2>1 DEF LoadInv, LoadKeeps, Held
<1> QED BY <1>1, <1>2

LEMMA LoadStays ==
  ASSUME InsightsInv, Apart(here), DumpInv, LoadInv, deletes' = 0, ArchiveNext \/ UNCHANGED archiveVars
  PROVE  LoadInv'
<1> USE ArchiveAssumption
<1>1. CASE UNCHANGED <<there, load, loads>>
  <2>1. dump.step = "packed" => UNCHANGED dump
    <3>1. \A i \in EntryIds : ~DropEntry(i)
      BY DEF DropEntry, InsightsInv
    <3> QED BY <3>1 DEF ArchiveNext, archiveVars, Tick, Write, CloseEntry, CopyInsight, MarkImported, OpenerDies,
                        StartDump, ReadPage, StartLoading, LoadEntry, LoadLinks, LoadDies
  <2> QED BY <1>1, <2>1, RestKeepsLoad
<1>2. CASE StartLoading
  <2> DEFINE step == IF dump.out = <<>> THEN "links" ELSE "entries"
  <2>1. /\ dump.step = "packed" /\ loads' = loads + 1 /\ UNCHANGED <<there, dump>>
        /\ load' = [step |-> step, n |-> 1, ids |-> [i \in EntryIds |-> 0], again |-> load.step = "done"]
    BY <1>2 DEF StartLoading
  <2>2. /\ load' \in LoadTypes /\ load'.step = step /\ load'.n = 1 /\ step \in {"links", "entries"}
    BY <2>1 DEF LoadTypes
  <2>3. /\ Len(dump.out) \in Nat /\ (step = "entries" => 1 <= Len(dump.out)) /\ (step = "links" => Len(dump.out) = 0)
    <3>1. dump.out \in Seq([id : EntryIds, e : Entry])
      BY DEF DumpInv, DumpTypes
    <3> QED BY <3>1
  <2> HIDE DEF step
  <2>4. loads' = 1 => Landed(load.n - 1)'
    <3>1. load'.n - 1 = 0
      BY <2>2
    <3>2. loads' = 1 => loads = 0
      BY <2>1 DEF LoadInv
    <3>3. loads' = 1 => Held(there') = {}
      BY <2>1, <3>2 DEF LoadInv
    <3> QED BY <3>1, <3>3 DEF Landed
  <2>5. loads' \in Nat /\ loads' # 0
    BY <2>1 DEF LoadInv
  <2> QED BY <2>1, <2>2, <2>3, <2>4, <2>5 DEF LoadInv, LoadKeeps
<1>3. CASE LoadEntry
  <2> DEFINE a == dump.out[load.n]
             step == IF load.n = Len(dump.out) THEN "links" ELSE "entries"
             h == Home(there, a.e)
  <2>1. /\ load.step = "entries" /\ HasRoom(there, a.e) /\ there' = Added(there, a.e) /\ UNCHANGED <<dump, loads, here>>
        /\ load' = [load EXCEPT !.step = step, !.n = @ + 1, !.ids[a.id] = h]
    BY <1>3 DEF LoadEntry
  <2>2. /\ load.n \in 1 .. Len(dump.out) /\ Len(dump.out) \in Nat /\ dump.step = "packed" /\ loads \in Nat /\ loads # 0
    BY <2>1 DEF LoadInv, DumpInv, DumpTypes
  <2>3. a.e \in Entry /\ there \in Journals /\ h \in EntryIds
    BY <2>1, <2>2 DEF DumpInv, AsHere, LoadInv, HasRoom
  <2>4. there' \in Journals
    BY <2>1, <2>3, AddedFits
  <2>5. step \in {"links", "entries"} /\ h \in 0 .. MaxNumber
    BY <2>3 DEF EntryIds
  <2>10. ASSUME NEW k \in 1 .. load.n PROVE load'.ids[dump.out[k].id] \in Held(there')
    <3>1. k \in 1 .. Len(dump.out)
      BY <2>2
    <3>2. dump.out[k].id \in EntryIds /\ a.id \in EntryIds
      BY <3>1, <2>2 DEF DumpInv, AsHere, Held
    <3>3. load'.ids = [load.ids EXCEPT ![a.id] = h] /\ load.ids \in [EntryIds -> 0 .. MaxNumber]
      BY <2>1 DEF LoadInv, LoadTypes
    <3>4. h \in Held(there') /\ \A i \in Held(there) : i \in Held(there')
      <4>1. /\ there'[h] \in Entry /\ \A i \in EntryIds : i # h => there'[i] = there[i]
        BY <2>1, <2>3, AddedFits
      <4>2. NoEntry \notin Entry
        BY DEF NoEntry, Entry
      <4> HIDE DEF h
      <4> QED BY <4>1, <4>2, <2>3 DEF Held
    <3> HIDE DEF h
    <3>5. CASE dump.out[k].id = a.id
      BY <3>2, <3>3, <3>4, <3>5
    <3>6. CASE dump.out[k].id # a.id
      <4>1. k \in 1 .. load.n - 1
        BY <3>6, <2>2
      <4>2. Landing(k) \in Held(there)
        BY <4>1, <2>1 DEF LoadInv
      <4> QED BY <4>2, <3>2, <3>3, <3>4, <3>6 DEF Landing
    <3> QED BY <3>5, <3>6
  <2> HIDE DEF a, step, h
  <2>6. load' \in LoadTypes /\ load'.step = step /\ load'.n = load.n + 1
    <3> DEFINE ids == [load.ids EXCEPT ![a.id] = h]
    <3>1. ids \in [EntryIds -> 0 .. MaxNumber] /\ load \in LoadTypes
      BY <2>5 DEF LoadInv, LoadTypes
    <3>2. load' = [load EXCEPT !.step = step, !.n = @ + 1, !.ids = ids]
      BY <2>1, <3>1 DEF LoadTypes
    <3> HIDE DEF ids
    <3>3. load.n \in Nat /\ load.n + 1 \in Nat /\ load' = [load EXCEPT !.step = step, !.n = load.n + 1, !.ids = ids]
      BY <3>1, <3>2 DEF LoadTypes
    <3>4. step \in {"rest", "entries", "links", "done"}
      BY <2>5
    <3> QED BY <3>1, <3>3, <3>4 DEF LoadTypes
  <2>11. \A k \in 1 .. load'.n - 1 : Landing(k)' \in Held(there')
    <3>1. load'.n - 1 = load.n
      BY <2>2, <2>6
    <3> QED BY <2>1, <2>10, <3>1 DEF Landing
  <2>7. /\ step = "entries" => load'.n \in 1 .. Len(dump.out)
        /\ step = "links" => load'.n = Len(dump.out) + 1
    BY <2>2, <2>6 DEF step
  <2>8. loads = 1 /\ OldestFirst => Landed(load.n - 1)'
    BY <1>3, EntryLands DEF InsightsInv
  <2>9. OldestFirst' <=> OldestFirst
    BY <2>1 DEF OldestFirst, NotYounger
  <2> QED BY <2>1, <2>2, <2>4, <2>5, <2>6, <2>7, <2>8, <2>9, <2>11 DEF LoadInv, LoadKeeps
<1>4. CASE LoadLinks
  <2>1. LoadKeeps'
    BY <1>4, LinksLand
  <2>2. /\ load.step = "links" /\ load' = [load EXCEPT !.step = "done"] /\ UNCHANGED <<dump, loads>>
        /\ there' = [i \in EntryIds |-> [there[i] EXCEPT !.links = @ \cup
                    UNION {Renumbered(a) : a \in {b \in ToSet(dump.out) : load.ids[b.id] = i}}]]
    BY <1>4 DEF LoadLinks
  <2>3. load' \in LoadTypes /\ load'.step = "done" /\ loads \in Nat /\ loads # 0 /\ dump.step = "packed"
    BY <2>2 DEF LoadInv, LoadTypes
  <2> DEFINE new(i) == UNION {Renumbered(a) : a \in {b \in ToSet(dump.out) : load.ids[b.id] = i}}
  <2>5. \A b \in ToSet(dump.out) : Renumbered(b) \subseteq EntryIds /\ load.ids[b.id] \in Held(there)
    <3> SUFFICES ASSUME NEW b \in ToSet(dump.out) PROVE Renumbered(b) \subseteq EntryIds /\ load.ids[b.id] \in Held(there)
      OBVIOUS
    <3>1. load.n - 1 = Len(dump.out) /\ DOMAIN dump.out = 1 .. Len(dump.out)
      BY <2>2 DEF LoadInv, LoadTypes, DumpInv, DumpTypes
    <3>2. PICK k \in 1 .. load.n - 1 : b = dump.out[k]
      BY <3>1 DEF ToSet
    <3>3. b.e \in Entry
      BY <3>1, <3>2 DEF DumpInv, AsHere
    <3>4. b.e.links \subseteq EntryIds /\ load.ids \in [EntryIds -> 0 .. MaxNumber]
      BY <3>3 DEF Entry, LoadInv, LoadTypes
    <3>5. Renumbered(b) \subseteq EntryIds
      BY <3>4 DEF Renumbered, EntryIds
    <3>6. Landing(k) \in Held(there)
      BY <2>2 DEF LoadInv
    <3> QED BY <3>2, <3>5, <3>6 DEF Landing
  <2>4. there' \in Journals
    <3>1. ASSUME NEW i \in EntryIds PROVE [there[i] EXCEPT !.links = there[i].links \cup new(i)] \in Entry \cup {NoEntry}
      <4>1. new(i) \subseteq EntryIds
        BY <2>5
      <4>2. CASE there[i] = NoEntry
        <5>1. new(i) = {}
          BY <2>5, <4>2 DEF Held
        <5> HIDE DEF new
        <5>2. there[i].links \cup new(i) = NoEntry.links
          BY <4>2, <5>1
        <5>3. [NoEntry EXCEPT !.links = NoEntry.links] = NoEntry
          BY DEF NoEntry
        <5> QED BY <4>2, <5>2, <5>3
      <4>3. CASE there[i] \in Entry
        <5> HIDE DEF new
        <5>1. there[i].links \cup new(i) \in SUBSET EntryIds
          BY <4>1, <4>3 DEF Entry
        <5> QED BY <4>3, <5>1 DEF Entry
      <4> QED BY <4>2, <4>3 DEF LoadInv, Journals
    <3> QED BY <2>2, <3>1 DEF Journals
  <2> QED BY <2>1, <2>2, <2>3, <2>4 DEF LoadInv
<1>5. CASE LoadDies
  <2>1. load.step # "rest" /\ load' = [load EXCEPT !.step = "rest"] /\ UNCHANGED <<there, dump, loads>>
    BY <1>5 DEF LoadDies
  <2>2. load' \in LoadTypes /\ load'.step = "rest" /\ loads \in Nat /\ loads # 0
    BY <2>1 DEF LoadInv, LoadTypes
  <2> QED BY <2>1, <2>2 DEF LoadInv, LoadKeeps
<1> QED BY <1>1, <1>2, <1>3, <1>4, <1>5 DEF ArchiveNext, archiveVars, Tick, Write, CloseEntry, DropEntry, CopyInsight,
        MarkImported, OpenerDies, StartDump, ReadPage

LEMMA KeptInitInv == ArchiveInit => Apart(here) /\ DumpInv /\ LoadInv
<1> SUFFICES ASSUME ArchiveInit PROVE Apart(here) /\ DumpInv /\ LoadInv
  OBVIOUS
<1> USE ArchiveAssumption
<1>1. /\ here = [i \in EntryIds |-> NoEntry] /\ there = here /\ loads = 0
      /\ dump = [step |-> "rest", out |-> <<>>, first |-> 0, stays |-> {}]
      /\ load = [step |-> "rest", n |-> 0, ids |-> [i \in EntryIds |-> 0], again |-> FALSE]
  BY DEF ArchiveInit
<1>2. Held(here) = {} /\ Held(there) = {} /\ there \in Journals
  BY <1>1 DEF Held, Journals
<1>3. dump \in DumpTypes /\ Len(dump.out) = 0 /\ dump.stays = {} /\ dump.step = "rest"
  BY <1>1 DEF DumpTypes
<1>4. load \in LoadTypes /\ load.step = "rest" /\ loads \in Nat
  BY <1>1 DEF LoadTypes
<1> QED BY <1>1, <1>2, <1>3, <1>4 DEF Apart, DumpInv, LoadInv, LoadKeeps

-----------------------------------------------------------------------------
(* The search.                                                             *)
(* Fractions.                                                              *)
LEMMA ProductsGrow ==
  ASSUME NEW p \in Nat, NEW q \in Nat, NEW w \in Nat \ {0}
  PROVE  (p >= q => p * w >= q * w) /\ (p > q => p * w > q * w)
<1>1. \A d \in Nat : (q + d) * w = q * w + d * w /\ d * w >= 0 /\ (d > 0 => d * w > 0)
  BY SMTT(30)
<1>2. p * w \in Nat /\ q * w \in Nat
  BY SMTT(30)
<1>3. p >= q => p - q \in Nat /\ p = q + (p - q)
  OBVIOUS
<1>4. p >= q => p * w = q * w + (p - q) * w /\ (p - q) * w >= 0 /\ (p - q > 0 => (p - q) * w > 0)
  BY <1>1, <1>3, Zenon
<1>5. (p - q) * w \in Int /\ (p > q => p - q > 0)
  BY SMTT(30)
<1> QED
  <2> DEFINE a == p * w
             b == q * w
             c == (p - q) * w
  <2>1. a \in Nat /\ b \in Nat /\ c \in Int
    BY <1>2, <1>5
  <2>2. p >= q => a = b + c /\ c >= 0 /\ (p - q > 0 => c > 0)
    BY <1>4
  <2> HIDE DEF a, b, c
  <2>3. (p >= q => a >= b) /\ (p > q => a > b)
    BY <2>1, <2>2, <1>5
  <2> QED BY <2>3 DEF a, b

LEMMA SumsGrow ==
  ASSUME NEW x1 \in Nat, NEW x2 \in Nat \ {0}, NEW y1 \in Nat, NEW y2 \in Nat \ {0},
         NEW u1 \in Nat, NEW u2 \in Nat \ {0}, NEW v1 \in Nat, NEW v2 \in Nat \ {0},
         x1 * u2 >= u1 * x2, y1 * v2 >= v1 * y2, x1 * u2 > u1 * x2 \/ y1 * v2 > v1 * y2
  PROVE  ~((u1 * v2 + v1 * u2) * (x2 * y2) >= (x1 * y2 + y1 * x2) * (u2 * v2))
<1> DEFINE p == x1 * u2
           q == u1 * x2
           r == y1 * v2
           s == v1 * y2
           w == y2 * v2
           z == x2 * u2
<1>1. p \in Nat /\ q \in Nat /\ r \in Nat /\ s \in Nat /\ w \in Nat \ {0} /\ z \in Nat \ {0}
  BY SMTT(30)
<1>2. p >= q /\ r >= s /\ (p > q \/ r > s)
  OBVIOUS
<1>3. (x1 * y2 + y1 * x2) * (u2 * v2) = p * w + r * z
  BY SMTT(30)
<1>4. (u1 * v2 + v1 * u2) * (x2 * y2) = q * w + s * z
  BY SMTT(30)
<1> HIDE DEF p, q, r, s, w, z
<1>5. p * w >= q * w /\ r * z >= s * z /\ (p > q => p * w > q * w) /\ (r > s => r * z > s * z)
  BY <1>1, <1>2, ProductsGrow
<1>6. p * w \in Nat /\ q * w \in Nat /\ r * z \in Nat /\ s * z \in Nat
  BY <1>1, SMTT(30)
<1> DEFINE A == p * w
           B == q * w
           C == r * z
           D == s * z
<1>7. A >= B /\ C >= D /\ (A > B \/ C > D) /\ A \in Nat /\ B \in Nat /\ C \in Nat /\ D \in Nat
  BY <1>2, <1>5, <1>6
<1>8. (x1 * y2 + y1 * x2) * (u2 * v2) = A + C /\ (u1 * v2 + v1 * u2) * (x2 * y2) = B + D
  BY <1>3, <1>4
<1> HIDE DEF A, B, C, D
<1>9. ~(B + D >= A + C)
  BY <1>7
<1> QED BY <1>8, <1>9, Zenon

(* Where a ranking has a chunk, and what that makes of its score.          *)
LEMMA RankInFits ==
  ASSUME NEW S, NEW s \in Seq(S), NEW i
  PROVE  /\ RankIn(s, i) \in Nat
         /\ RankIn(s, i) # 0 => RankIn(s, i) \in 1 .. Len(s) /\ s[RankIn(s, i)] = i
         /\ RankIn(s, i) = 0 => \A r \in 1 .. Len(s) : s[r] # i
<1>1. DOMAIN s = 1 .. Len(s) /\ Len(s) \in Nat
  OBVIOUS
<1>2. CASE \E r \in DOMAIN s : s[r] = i
  <2>1. RankIn(s, i) = CHOOSE r \in DOMAIN s : s[r] = i
    BY <1>2 DEF RankIn
  <2>2. RankIn(s, i) \in DOMAIN s /\ s[RankIn(s, i)] = i
    BY <1>2, <2>1
  <2> QED BY <1>1, <2>2
<1>3. CASE ~\E r \in DOMAIN s : s[r] = i
  <2>1. RankIn(s, i) = 0
    BY <1>3 DEF RankIn
  <2> QED BY <1>1, <1>3, <2>1
<1> QED BY <1>2, <1>3

LEMMA SharesFit ==
  ASSUME NEW S, NEW s \in Seq(S), NEW a, NEW b
  PROVE  LET x == Share(s, a)
             u == Share(s, b)
         IN  /\ x[1] \in Nat /\ x[2] \in Nat \ {0} /\ u[1] \in Nat /\ u[2] \in Nat \ {0}
             /\ NotBelow(s, a, b) => x[1] * u[2] >= u[1] * x[2]
             /\ RankedBefore(s, a, b) => x[1] * u[2] > u[1] * x[2]
<1> DEFINE x == Share(s, a)
           u == Share(s, b)
           p == RankIn(s, a)
           q == RankIn(s, b)
<1>1. p \in Nat /\ q \in Nat /\ RrfK \in Nat
  BY RankInFits, RetrievalAssumption
<1>2. /\ p = 0 => x[1] = 0 /\ x[2] = 1
      /\ p # 0 => x[1] = 1 /\ x[2] = RrfK + p
      /\ q = 0 => u[1] = 0 /\ u[2] = 1
      /\ q # 0 => u[1] = 1 /\ u[2] = RrfK + q
  BY DEF Share
<1>3. /\ RankedBefore(s, a, b) <=> p # 0 /\ (q = 0 \/ p < q)
      /\ NotBelow(s, a, b) <=> RankedBefore(s, a, b) \/ q = 0
  BY DEF RankedBefore, NotBelow
<1> HIDE DEF x, u, p, q
<1>4. x[1] \in Nat /\ x[2] \in Nat \ {0} /\ u[1] \in Nat /\ u[2] \in Nat \ {0}
  BY <1>1, <1>2
<1>5. ASSUME RankedBefore(s, a, b) PROVE x[1] * u[2] > u[1] * x[2]
  <2>1. x[1] = 1 /\ x[2] = RrfK + p
    BY <1>2, <1>3, <1>5
  <2>2. CASE q = 0
    <3>1. u[1] = 0 /\ u[2] = 1 /\ x[2] \in Nat
      BY <1>2, <1>4, <2>2
    <3>2. \A y \in Nat : 1 * 1 > 0 * y
      OBVIOUS
    <3> QED BY <2>1, <3>1, <3>2
  <2>3. CASE q # 0
    <3>1. u[1] = 1 /\ u[2] = RrfK + q /\ p < q
      BY <1>2, <1>3, <1>5, <2>3
    <3>2. 1 * (RrfK + q) > 1 * (RrfK + p)
      BY <3>1, <1>1
    <3> QED BY <2>1, <3>1, <3>2
  <2> QED BY <2>2, <2>3
<1>6. ASSUME q = 0 PROVE x[1] * u[2] >= u[1] * x[2]
  <2>1. u[1] = 0 /\ u[2] = 1
    BY <1>2, <1>6
  <2>2. \A y, z \in Nat : y * 1 >= 0 * z
    OBVIOUS
  <2> QED BY <2>1, <2>2, <1>4
<1>7. x[1] * u[2] \in Nat /\ u[1] * x[2] \in Nat
  BY <1>4, SMTT(30)
<1>8. NotBelow(s, a, b) => x[1] * u[2] >= u[1] * x[2]
  BY <1>3, <1>5, <1>6, <1>7
<1> QED BY <1>4, <1>5, <1>8 DEF x, u

LEMMA ScoresDiffer ==
  ASSUME NEW S, NEW lex \in Seq(S), NEW dense \in Seq(S), NEW a, NEW b,
         NotBelow(lex, a, b), NotBelow(dense, a, b), RankedBefore(lex, a, b) \/ RankedBefore(dense, a, b)
  PROVE  ~AtLeast(Score(lex, dense, b), Score(lex, dense, a))
<1> DEFINE x == Share(lex, a)
           u == Share(lex, b)
           y == Share(dense, a)
           v == Share(dense, b)
<1>1. /\ x[1] \in Nat /\ x[2] \in Nat \ {0} /\ u[1] \in Nat /\ u[2] \in Nat \ {0}
      /\ x[1] * u[2] >= u[1] * x[2] /\ (RankedBefore(lex, a, b) => x[1] * u[2] > u[1] * x[2])
  BY SharesFit
<1>2. /\ y[1] \in Nat /\ y[2] \in Nat \ {0} /\ v[1] \in Nat /\ v[2] \in Nat \ {0}
      /\ y[1] * v[2] >= v[1] * y[2] /\ (RankedBefore(dense, a, b) => y[1] * v[2] > v[1] * y[2])
  BY SharesFit
<1>3. /\ Score(lex, dense, a) = <<x[1] * y[2] + y[1] * x[2], x[2] * y[2]>>
      /\ Score(lex, dense, b) = <<u[1] * v[2] + v[1] * u[2], u[2] * v[2]>>
  BY DEF Score
<1> HIDE DEF x, u, y, v
<1>4. ~((u[1] * v[2] + v[1] * u[2]) * (x[2] * y[2]) >= (x[1] * y[2] + y[1] * x[2]) * (u[2] * v[2]))
  <2> DEFINE x1 == x[1]
             x2 == x[2]
             y1 == y[1]
             y2 == y[2]
             u1 == u[1]
             u2 == u[2]
             v1 == v[1]
             v2 == v[2]
  <2>1. /\ x1 \in Nat /\ x2 \in Nat \ {0} /\ y1 \in Nat /\ y2 \in Nat \ {0}
        /\ u1 \in Nat /\ u2 \in Nat \ {0} /\ v1 \in Nat /\ v2 \in Nat \ {0}
        /\ x1 * u2 >= u1 * x2 /\ y1 * v2 >= v1 * y2 /\ (x1 * u2 > u1 * x2 \/ y1 * v2 > v1 * y2)
    BY <1>1, <1>2
  <2> HIDE DEF x1, x2, y1, y2, u1, u2, v1, v2
  <2>2. ~((u1 * v2 + v1 * u2) * (x2 * y2) >= (x1 * y2 + y1 * x2) * (u2 * v2))
    BY <2>1, SumsGrow
  <2> QED BY <2>2 DEF x1, x2, y1, y2, u1, u2, v1, v2
<1> DEFINE A == x[1] * y[2] + y[1] * x[2]
           B == x[2] * y[2]
           C == u[1] * v[2] + v[1] * u[2]
           D == u[2] * v[2]
<1>5. /\ Score(lex, dense, a) = <<A, B>> /\ Score(lex, dense, b) = <<C, D>> /\ ~(C * B >= A * D)
  BY <1>3, <1>4, Zenon
<1> HIDE DEF A, B, C, D
<1>6. /\ Score(lex, dense, a)[1] = A /\ Score(lex, dense, a)[2] = B
      /\ Score(lex, dense, b)[1] = C /\ Score(lex, dense, b)[2] = D
  BY <1>5
<1> QED BY <1>5, <1>6, Zenon DEF AtLeast

LEMMA CutFits ==
  ASSUME NEW S, NEW s \in Seq(S), NEW k \in Nat
  PROVE  /\ Cut(s, k) \in Seq(S) /\ Len(Cut(s, k)) \in Nat /\ Len(Cut(s, k)) <= Len(s)
         /\ \A i \in 1 .. Len(Cut(s, k)) : Cut(s, k)[i] = s[i]
         /\ \A i \in 1 .. Len(s) : i <= Len(Cut(s, k)) <=> i <= k
<1> DEFINE n == IF k < Len(s) THEN k ELSE Len(s)
<1>1. n \in Nat /\ n <= Len(s) /\ Len(s) \in Nat /\ \A i \in 1 .. Len(s) : i <= n <=> i <= k
  OBVIOUS
<1> HIDE DEF n
<1>2. SubSeq(s, 1, n) \in Seq(S) /\ Len(SubSeq(s, 1, n)) = n /\ \A i \in 1 .. n : SubSeq(s, 1, n)[i] = s[i]
  BY <1>1
<1>3. Cut(s, k) = SubSeq(s, 1, n)
  BY DEF Cut, n
<1> QED BY <1>1, <1>2, <1>3

LEMMA FusedIsFair ==
  ASSUME NEW S, IsFiniteSet(S), NEW lex \in Seq(S), NEW dense \in Seq(S), NEW k \in Nat, NEW hits \in Fused(lex, dense, k)
  PROVE  /\ hits \in Seq(S)
         /\ \A a \in ToSet(lex) \cup ToSet(dense), b \in ToSet(hits) :
                NotBelow(lex, a, b) /\ NotBelow(dense, a, b) /\ (RankedBefore(lex, a, b) \/ RankedBefore(dense, a, b))
                    => RankedBefore(hits, a, b)
<1> DEFINE all == ToSet(lex) \cup ToSet(dense)
<1>1. PICK o \in SetToSeqs(all) :
         /\ hits = Cut(o, k)
         /\ \A i, j \in DOMAIN o : i < j => AtLeast(Score(lex, dense, o[i]), Score(lex, dense, o[j]))
  BY DEF Fused
<1>2. all \in SUBSET S
  <2>1. \A i \in DOMAIN lex : lex[i] \in S
    OBVIOUS
  <2>2. \A i \in DOMAIN dense : dense[i] \in S
    OBVIOUS
  <2> QED BY <2>1, <2>2 DEF ToSet
<1> HIDE DEF all
<1>3. IsFiniteSet(all)
  BY <1>2, FS_Subset
<1>4. /\ o \in Seq(all) /\ Len(o) \in Nat
      /\ \A i, j \in 1 .. Len(o) : o[i] = o[j] => i = j
      /\ \A x \in all : \E i \in 1 .. Len(o) : o[i] = x
  BY <1>3, RankingsAreWhole
<1>5. /\ hits \in Seq(all) /\ Len(hits) \in Nat /\ Len(hits) <= Len(o)
      /\ \A i \in 1 .. Len(hits) : hits[i] = o[i]
  BY <1>1, <1>4, CutFits
<1>6. hits \in Seq(S)
  BY <1>2, <1>5
<1>7. ASSUME NEW a \in all, NEW b \in ToSet(hits), NotBelow(lex, a, b), NotBelow(dense, a, b),
             RankedBefore(lex, a, b) \/ RankedBefore(dense, a, b)
      PROVE  RankedBefore(hits, a, b)
  <2>1. ~AtLeast(Score(lex, dense, b), Score(lex, dense, a))
    BY <1>7, ScoresDiffer
  <2>2. a # b
    <3>1. RankIn(lex, b) \in Nat /\ RankIn(dense, b) \in Nat
      BY RankInFits
    <3> QED BY <1>7, <3>1 DEF RankedBefore
  <2>3. PICK i \in 1 .. Len(o) : o[i] = a
    BY <1>4
  <2>4. PICK j \in 1 .. Len(hits) : hits[j] = b
    <3>1. DOMAIN hits = 1 .. Len(hits)
      BY <1>5
    <3> QED BY <3>1 DEF ToSet
  <2>5. o[j] = b /\ j \in 1 .. Len(o) /\ j # i
    BY <1>5, <2>2, <2>3, <2>4
  <2>6. ~(j < i)
    <3>1. DOMAIN o = 1 .. Len(o)
      BY <1>4
    <3> QED BY <1>1, <2>1, <2>3, <2>5, <3>1
  <2>7. i < j /\ i \in 1 .. Len(hits) /\ hits[i] = a
    BY <1>5, <2>3, <2>4, <2>5, <2>6
  <2>8. RankIn(hits, a) = i /\ RankIn(hits, b) = j
    <3>1. \A m \in 1 .. Len(hits) : (hits[m] = a => m = i) /\ (hits[m] = b => m = j)
      <4> TAKE m \in 1 .. Len(hits)
      <4>1. m \in 1 .. Len(o) /\ hits[m] = o[m]
        <5>1. \A n, l \in Nat : l <= n => 1 .. l \subseteq 1 .. n
          OBVIOUS
        <5>2. m \in 1 .. Len(o)
          BY <5>1, <1>4, <1>5
        <5> QED BY <5>2, <1>5
      <4> QED BY <4>1, <1>4, <2>3, <2>5
    <3> QED BY <3>1, <2>4, <2>7, <1>5, RankInFits, SMTT(30)
  <2> QED BY <2>7, <2>8 DEF RankedBefore
<1> QED BY <1>6, <1>7 DEF all

-----------------------------------------------------------------------------
(* The documents' numbers: no two books have one, and what a reader goes   *)
(* on from has the number of a document that is there.                     *)
RetrievalInv ==
    /\ shelf \in [Docs -> Books \cup {None}] /\ embedded \subseteq ChunkNumbers
    /\ \A d, e \in Indexed : shelf[d] = shelf[e] => d = e
    /\ \A i \in Chunks : rows[i].doc \in Indexed
    /\ answer.hits \in Seq(Chunks)
    /\ hit.kept => hit.doc \in Indexed
    /\ RetrievalSafe

LEMMA RetrievalInitInv == RetrievalInit => RetrievalInv
<1> SUFFICES ASSUME RetrievalInit PROVE RetrievalInv
  OBVIOUS
<1>1. Indexed = {} /\ Chunks = {} /\ shelf \in [Docs -> Books \cup {None}]
  <2>1. \A d \in Docs : shelf[d] = None
    BY DEF RetrievalInit
  <2>2. \A i \in ChunkNumbers : rows[i] = NoRow
    BY DEF RetrievalInit
  <2> QED BY <2>1, <2>2 DEF RetrievalInit, Indexed, Chunks
<1>2. answer.hits = <<>> /\ answer.mode = "none" /\ hit.kept = FALSE
  BY DEF RetrievalInit, NoAnswer, NoHit
<1> QED BY <1>1, <1>2 DEF RetrievalInv, RetrievalSafe, NumberStays, FusedFair, RetrievalInit

(* A number that is given is one of none of them.                          *)
LEMMA NextNumberIsNew ==
  ASSUME NEW N \in Nat, NEW used \in SUBSET (1 .. N)
  PROVE  NextNumber(used) \in Nat \ {0} /\ NextNumber(used) \notin used
<1> DEFINE T == used \cup {0}
<1>1. T \in SUBSET (0 .. N) /\ T # {}
  OBVIOUS
<1> HIDE DEF T
<1>2. Max(T) \in T /\ \A v \in T : v <= Max(T)
  BY <1>1, LargestIsLargest
<1>3. Max(T) \in Nat
  <2>1. Max(T) \in 0 .. N
    BY <1>1, <1>2
  <2> QED BY <2>1
<1>4. NextNumber(used) = Max(T) + 1 /\ \A v \in used : v \in T
  BY DEF NextNumber, T
<1> QED BY <1>2, <1>3, <1>4

(* What a document is given: its own number again, or a new one.           *)
LEMMA NumberGiven ==
  ASSUME RetrievalInv, NEW p \in Books, Upserted(p) <= MaxDoc
  PROVE  LET d == Upserted(p)
         IN  /\ d \in Docs
             /\ \A e \in Docs : shelf[e] = p => e = d
             /\ d \in Indexed => shelf[d] = p
<1>1. MaxDoc \in Nat /\ p # None /\ Indexed \in SUBSET (1 .. MaxDoc)
  BY RetrievalAssumption DEF Indexed, Docs
<1>2. CASE \E d \in Indexed : shelf[d] = p
  <2>1. Upserted(p) = CHOOSE d \in Indexed : shelf[d] = p
    BY <1>2 DEF Upserted
  <2>2. Upserted(p) \in Indexed /\ shelf[Upserted(p)] = p
    BY <1>2, <2>1
  <2> QED BY <1>1, <2>2 DEF RetrievalInv, Indexed, Docs
<1>3. CASE ~\E d \in Indexed : shelf[d] = p
  <2>1. Upserted(p) = NextNumber(Indexed)
    BY <1>3 DEF Upserted
  <2>2. Upserted(p) \in Nat \ {0} /\ Upserted(p) \notin Indexed
    BY <1>1, <2>1, NextNumberIsNew
  <2>3. Upserted(p) \in Docs
    BY <1>1, <2>2 DEF Docs
  <2> QED BY <1>1, <1>3, <2>2, <2>3 DEF Indexed
<1> QED BY <1>2, <1>3

(* The chunks of a path are replaced, those of the others stay.            *)
LEMMA ChunksReplaced ==
  ASSUME NEW p, NEW d, NEW many \in Nat, rows' = ChunksOf(p, d, many), NEW i \in Chunks'
  PROVE  (i \in Chunks /\ PathAt(i) # p /\ rows'[i] = rows[i]) \/ (rows'[i].doc = d /\ many # 0)
<1>1. i \in ChunkNumbers /\ rows'[i] # NoRow
  BY DEF Chunks
<1>2. rows'[i] = IF i \in OtherChunks(p) THEN rows[i]
                 ELSE IF i \in NewRows(p, many) THEN [doc |-> d, ord |-> i + 1 - Min(NewRows(p, many))] ELSE NoRow
  BY <1>1 DEF ChunksOf
<1>3. many = 0 => NewRows(p, many) = {}
  <2>1. ASSUME many = 0 PROVE NewRows(p, many) = {}
    <3> DEFINE m == Max(OtherChunks(p) \cup {0})
    <3>1. NewRows(p, many) = (m + 1) .. (m + 0)
      BY <2>1 DEF NewRows
    <3>2. m \in Nat
      <4>1. OtherChunks(p) \cup {0} \in SUBSET (0 .. MaxChunk) /\ MaxChunk \in Nat
        BY RetrievalAssumption DEF OtherChunks, Chunks, ChunkNumbers
      <4>2. m \in OtherChunks(p) \cup {0}
        BY <4>1, LargestIsLargest
      <4> QED BY <4>1, <4>2
    <3> HIDE DEF m
    <3> QED BY <3>1, <3>2
  <2> QED BY <2>1
<1> QED BY <1>1, <1>2, <1>3 DEF OtherChunks

LEMMA IngestKeeps ==
  ASSUME RetrievalInv, NEW p \in Books, NEW many \in 1 .. 2, NEW encoded \in BOOLEAN, Ingest(p, many, encoded)
  PROVE  RetrievalInv'
<1> DEFINE d == Upserted(p)
<1>1. /\ answer = NoAnswer /\ d <= MaxDoc /\ NewRows(p, many) \subseteq ChunkNumbers
      /\ shelf' = [e \in Docs |-> IF e = d THEN p ELSE IF shelf[e] = p THEN None ELSE shelf[e]]
      /\ rows' = ChunksOf(p, d, many)
      /\ embedded' = IF encoded THEN embedded \cup NewRows(p, many) ELSE embedded
      /\ UNCHANGED <<answer, hit>>
  BY DEF Ingest
<1>2. /\ d \in Docs /\ (\A e \in Docs : shelf[e] = p => e = d) /\ (d \in Indexed => shelf[d] = p) /\ p # None
  BY <1>1, NumberGiven, RetrievalAssumption
<1> HIDE DEF d
<1>3. /\ shelf' \in [Docs -> Books \cup {None}] /\ shelf'[d] = p
      /\ \A e \in Docs : e # d => shelf'[e] = shelf[e]
  BY <1>1, <1>2 DEF RetrievalInv
<1>4. Indexed \subseteq Indexed' /\ Indexed' \subseteq Indexed \cup {d} /\ d \in Indexed'
  BY <1>2, <1>3 DEF Indexed
<1>5. \A e \in Indexed : shelf'[e] = shelf[e]
  BY <1>2, <1>3 DEF Indexed
<1>6. \A e, f \in Indexed' : shelf'[e] = shelf'[f] => e = f
  <2> SUFFICES ASSUME NEW e \in Indexed', NEW f \in Indexed', shelf'[e] = shelf'[f] PROVE e = f
    OBVIOUS
  <2>1. e \in Docs /\ f \in Docs
    BY DEF Indexed
  <2>2. CASE e # d /\ f # d
    BY <2>1, <2>2, <1>3, <1>4 DEF RetrievalInv
  <2>3. CASE e = d \/ f = d
    BY <2>1, <2>3, <1>2, <1>3
  <2> QED BY <2>2, <2>3
<1>7. \A i \in Chunks' : rows'[i].doc \in Indexed'
  <2> SUFFICES ASSUME NEW i \in Chunks' PROVE rows'[i].doc \in Indexed'
    OBVIOUS
  <2>1. (i \in Chunks /\ rows'[i] = rows[i]) \/ rows'[i].doc = d
    BY <1>1, ChunksReplaced
  <2> QED BY <2>1, <1>4 DEF RetrievalInv
<1>8. answer'.hits \in Seq(Chunks')
  BY <1>1 DEF NoAnswer
<1>9. embedded' \subseteq ChunkNumbers
  BY <1>1 DEF RetrievalInv
<1>10. hit'.kept => hit'.doc \in Indexed' /\ shelf'[hit'.doc] = hit'.path
  BY <1>1, <1>4, <1>5 DEF RetrievalInv, RetrievalSafe, NumberStays
<1>11. RetrievalSafe'
  BY <1>1, <1>10 DEF RetrievalSafe, NumberStays, FusedFair, NoAnswer
<1> QED BY <1>3, <1>6, <1>7, <1>8, <1>9, <1>10, <1>11 DEF RetrievalInv

LEMMA DeleteKeeps ==
  ASSUME RetrievalInv, NEW d \in Docs, Delete(d)
  PROVE  RetrievalInv'
<1>1. /\ answer = NoAnswer /\ d \in Indexed /\ shelf' = [shelf EXCEPT ![d] = None]
      /\ rows' = ChunksOf(shelf[d], d, 0)
      /\ hit' = IF hit.doc = d THEN [hit EXCEPT !.kept = FALSE] ELSE hit
      /\ UNCHANGED <<embedded, answer>>
  BY DEF Delete
<1>2. /\ shelf' \in [Docs -> Books \cup {None}] /\ shelf'[d] = None /\ \A e \in Docs : e # d => shelf'[e] = shelf[e]
  BY <1>1 DEF RetrievalInv
<1>3. Indexed' = Indexed \ {d}
  BY <1>2 DEF Indexed
<1>4. \A e, f \in Indexed' : shelf'[e] = shelf'[f] => e = f
  BY <1>2, <1>3 DEF RetrievalInv, Indexed
<1>5. \A i \in Chunks' : rows'[i].doc \in Indexed'
  <2> SUFFICES ASSUME NEW i \in Chunks' PROVE rows'[i].doc \in Indexed'
    OBVIOUS
  <2>1. i \in Chunks /\ PathAt(i) # shelf[d] /\ rows'[i] = rows[i]
    BY <1>1, ChunksReplaced
  <2> QED BY <2>1, <1>3 DEF RetrievalInv, PathAt
<1>6. answer'.hits \in Seq(Chunks')
  BY <1>1 DEF NoAnswer
<1>7. hit'.kept => hit' = hit /\ hit.doc # d
  <2>1. CASE hit.doc = d
    <3>1. hit' = [hit EXCEPT !.kept = FALSE]
      BY <1>1, <2>1
    <3>2. hit.kept => hit'.kept = FALSE
      BY <3>1
    <3> QED BY <3>1, <3>2
  <2>2. CASE hit.doc # d
    BY <1>1, <2>2
  <2> QED BY <2>1, <2>2
<1>8. hit'.kept => hit'.doc \in Indexed' /\ shelf'[hit'.doc] = hit'.path
  BY <1>2, <1>3, <1>7 DEF RetrievalInv, RetrievalSafe, NumberStays, Indexed
<1>9. RetrievalSafe'
  BY <1>1, <1>8 DEF RetrievalSafe, NumberStays, FusedFair, NoAnswer
<1> QED BY <1>1, <1>2, <1>4, <1>5, <1>6, <1>8, <1>9 DEF RetrievalInv

(* Every place among the numbers of a finite set is one of theirs.         *)
LEMMA EveryPlaceIsTaken ==
  ASSUME NEW S \in SUBSET Nat, IsFiniteSet(S), NEW m \in 1 .. Cardinality(S)
  PROVE  \E r \in S : Cardinality({q \in S : q <= r}) = m
<1> DEFINE upto(r) == {q \in S : q <= r}
           n == Cardinality(S)
           T == 1 .. n
           f == [r \in S |-> Cardinality(upto(r))]
<1>1. n \in Nat
  BY FS_CardinalityType
<1>2. ASSUME NEW r \in S
      PROVE  IsFiniteSet(upto(r)) /\ Cardinality(upto(r)) \in T
  <2>1. upto(r) \in SUBSET S /\ r \in upto(r)
    OBVIOUS
  <2> HIDE DEF upto
  <2>2. IsFiniteSet(upto(r)) /\ Cardinality(upto(r)) <= n /\ Cardinality(upto(r)) \in Nat
    BY <2>1, FS_Subset, FS_CardinalityType
  <2>3. Cardinality(upto(r)) # 0
    BY <2>1, <2>2, FS_EmptySet
  <2> HIDE DEF n
  <2> QED BY <1>1, <2>2, <2>3
<1>3. ASSUME NEW r \in S, NEW t \in S, r < t PROVE Cardinality(upto(r)) # Cardinality(upto(t))
  <2>0. \A q \in S : q \in Nat /\ (q <= r => q <= t) /\ t <= t /\ ~(t <= r)
    <3> TAKE q \in S
    <3>1. q \in Nat /\ r \in Nat /\ t \in Nat
      OBVIOUS
    <3> QED BY <3>1, <1>3
  <2>1. upto(r) \in SUBSET upto(t) /\ t \in upto(t) /\ t \notin upto(r)
    BY <2>0
  <2>2. IsFiniteSet(upto(t))
    BY <1>2
  <2> HIDE DEF upto
  <2> QED BY <2>1, <2>2, FS_Subset
<1>4. f \in [S -> T] /\ \A r, t \in S : f[r] = f[t] => r = t
  <2>1. ASSUME NEW r \in S, NEW t \in S, Cardinality(upto(r)) = Cardinality(upto(t)) PROVE r = t
    <3>1. ~(r < t) /\ ~(t < r)
      BY <1>3, <2>1
    <3> QED BY <3>1
  <2> HIDE DEF upto, T
  <2> QED BY <1>2, <2>1
<1>5. IsFiniteSet(T) /\ Cardinality(T) = n
  BY <1>1, FS_Interval
<1> HIDE DEF f, n, T
<1>6. f \in Injection(S, T)
  BY <1>4 DEF Injection, IsInjective
<1>7. f \in Surjection(S, T)
  BY <1>5, <1>6, FS_Injection DEF n
<1>8. \E r \in S : f[r] = m
  BY <1>7 DEF Surjection, T, n
<1> QED BY <1>8 DEF f

LEMMA DenseFits ==
  ASSUME NEW near \in Seq(ChunkNumbers), NEW k \in Nat
  PROVE  DenseOf(near, k) \in Seq(Chunks)
<1> DEFINE cut == Cut(near, k)
           found == {r \in DOMAIN cut : cut[r] \in Chunks}
           n == Cardinality(found)
           F == [m \in 1 .. n |-> cut[CHOOSE r \in found : Cardinality({q \in found : q <= r}) = m]]
<1>1. cut \in Seq(ChunkNumbers)
  BY CutFits
<1>2. IsFiniteSet(DOMAIN cut) /\ found \in SUBSET DOMAIN cut /\ found \subseteq Nat
  <2>1. DOMAIN cut = 1 .. Len(cut) /\ Len(cut) \in Nat
    BY <1>1
  <2>2. IsFiniteSet(1 .. Len(cut))
    BY <2>1, FS_Interval
  <2> QED BY <2>1, <2>2
<1>3. DenseOf(near, k) = F
  BY DEF DenseOf
<1>4. \A r \in found : cut[r] \in Chunks
  OBVIOUS
<1> HIDE DEF found, cut
<1>5. IsFiniteSet(found) /\ n \in Nat
  BY <1>2, FS_Subset, FS_CardinalityType
<1>6. \A m \in 1 .. n : \E r \in found : Cardinality({q \in found : q <= r}) = m
  BY <1>2, <1>5, EveryPlaceIsTaken
<1> HIDE DEF n
<1>7. \A m \in 1 .. n : F[m] \in Chunks
  <2> TAKE m \in 1 .. n
  <2>1. (CHOOSE r \in found : Cardinality({q \in found : q <= r}) = m) \in found
    BY <1>6
  <2> QED BY <1>4, <2>1
<1>8. F \in [1 .. n -> Chunks]
  BY <1>7
<1> HIDE DEF F
<1>9. F \in Seq(Chunks)
  BY <1>5, <1>8, FunctionIsSeq
<1> QED BY <1>3, <1>9

LEMMA SearchKeeps ==
  ASSUME RetrievalInv, NEW mode \in {"lexical", "dense", "hybrid"}, NEW k \in 1 .. MaxTop, Search(mode, k)
  PROVE  RetrievalInv'
<1>1. PICK full \in IF mode = "dense" THEN {<<>>} ELSE Rankings(Chunks),
           near \in IF mode = "lexical" THEN {<<>>} ELSE SetToSeqs(embedded) :
         \E hits \in CASE mode = "lexical" -> {LexicalOf(full, k)}
                       [] mode = "dense" -> {DenseOf(near, k)}
                       [] mode = "hybrid" -> Hybrid(full, near, k) :
            answer' = [mode |-> mode, top |-> k, lex |-> full, near |-> DenseOf(near, k * HybridFactor), hits |-> hits]
  BY DEF Search
<1>2. PICK hits \in CASE mode = "lexical" -> {LexicalOf(full, k)}
                       [] mode = "dense" -> {DenseOf(near, k)}
                       [] mode = "hybrid" -> Hybrid(full, near, k) :
            answer' = [mode |-> mode, top |-> k, lex |-> full, near |-> DenseOf(near, k * HybridFactor), hits |-> hits]
  BY <1>1
<1>3. UNCHANGED <<shelf, rows, embedded, hit>>
  BY DEF Search
<1>4. k \in Nat /\ k * HybridFactor \in Nat /\ MaxChunk \in Nat
  <2>1. k \in Nat /\ HybridFactor \in Nat /\ MaxChunk \in Nat
    BY RetrievalAssumption
  <2>2. \A x, y \in Nat : x * y \in Nat
    OBVIOUS
  <2> QED BY <2>1, <2>2
<1>5. IsFiniteSet(ChunkNumbers) /\ Chunks \in SUBSET ChunkNumbers /\ IsFiniteSet(Chunks) /\ IsFiniteSet(embedded)
  <2>1. IsFiniteSet(ChunkNumbers)
    <3>1. 1 \in Int /\ MaxChunk \in Int
      BY <1>4
    <3> QED BY <3>1, FS_Interval DEF ChunkNumbers
  <2>2. Chunks \in SUBSET ChunkNumbers /\ embedded \in SUBSET ChunkNumbers
    BY DEF Chunks, RetrievalInv
  <2> QED BY <2>1, <2>2, FS_Subset
<1>6. full \in Seq(Chunks)
  <2>1. CASE mode = "dense"
    BY <2>1
  <2>2. CASE mode # "dense"
    <3>1. PICK T \in SUBSET Chunks : full \in SetToSeqs(T)
      BY <2>2 DEF Rankings
    <3>2. full \in Seq(T)
      BY <3>1, <1>5, FS_Subset, RankingsAreWhole
    <3> QED BY <3>1, <3>2
  <2> QED BY <2>1, <2>2
<1>7. near \in Seq(ChunkNumbers)
  <2>1. CASE mode = "lexical"
    BY <2>1
  <2>2. CASE mode # "lexical"
    <3>1. near \in SetToSeqs(embedded)
      BY <2>2
    <3>2. near \in Seq(embedded) /\ embedded \subseteq ChunkNumbers
      BY <3>1, <1>5, RankingsAreWhole DEF RetrievalInv
    <3> QED BY <3>2
  <2> QED BY <2>1, <2>2
<1> DEFINE lex == LexicalOf(full, k * HybridFactor)
           dense == DenseOf(near, k * HybridFactor)
<1>8. lex \in Seq(Chunks) /\ dense \in Seq(Chunks) /\ LexicalOf(full, k) \in Seq(Chunks) /\ DenseOf(near, k) \in Seq(Chunks)
  BY <1>4, <1>6, <1>7, CutFits, DenseFits DEF LexicalOf
<1>9. mode = "hybrid" => hits \in Fused(lex, dense, k)
  BY <1>2 DEF Hybrid
<1> HIDE DEF lex, dense
<1>10. mode = "hybrid" =>
         /\ hits \in Seq(Chunks)
         /\ \A a \in ToSet(lex) \cup ToSet(dense), b \in ToSet(hits) :
                NotBelow(lex, a, b) /\ NotBelow(dense, a, b) /\ (RankedBefore(lex, a, b) \/ RankedBefore(dense, a, b))
                    => RankedBefore(hits, a, b)
  BY <1>4, <1>5, <1>8, <1>9, FusedIsFair
<1>11. hits \in Seq(Chunks)
  BY <1>2, <1>8, <1>10
<1>12. answer'.mode = mode /\ answer'.top = k /\ answer'.lex = full /\ answer'.near = dense /\ answer'.hits = hits
  BY <1>2 DEF dense
<1>13. FusedFair'
  <2>1. LexicalOf(answer'.lex, answer'.top * HybridFactor) = lex
    BY <1>12 DEF lex
  <2> QED BY <2>1, <1>10, <1>12 DEF FusedFair, LexicalOf
<1>14. NumberStays' /\ Chunks' = Chunks /\ Indexed' = Indexed
  BY <1>3 DEF RetrievalInv, RetrievalSafe, NumberStays, Chunks, Indexed
<1> QED BY <1>3, <1>11, <1>12, <1>13, <1>14 DEF RetrievalInv, RetrievalSafe

LEMMA RetrievalKeeps == RetrievalInv /\ (RetrievalNext \/ UNCHANGED retrievalVars) => RetrievalInv'
<1> SUFFICES ASSUME RetrievalInv, RetrievalNext \/ UNCHANGED retrievalVars PROVE RetrievalInv'
  OBVIOUS
<1>1. ASSUME UNCHANGED <<shelf, rows, embedded>>, answer' = answer \/ answer' = NoAnswer,
             hit' = hit \/ hit' = NoHit \/ (hit'.doc \in Indexed /\ hit'.path = shelf[hit'.doc])
      PROVE  RetrievalInv'
  <2>1. Chunks' = Chunks /\ Indexed' = Indexed
    BY <1>1 DEF Chunks, Indexed
  <2>2. hit'.kept => hit'.doc \in Indexed /\ shelf[hit'.doc] = hit'.path
    BY <1>1 DEF NoHit, RetrievalInv, RetrievalSafe, NumberStays
  <2>3. answer'.hits \in Seq(Chunks) /\ FusedFair'
    <3>1. CASE answer' = answer
      BY <3>1 DEF RetrievalInv, RetrievalSafe, FusedFair
    <3>2. CASE answer' = NoAnswer
      BY <3>2 DEF NoAnswer, FusedFair
    <3> QED BY <1>1, <3>1, <3>2
  <2> QED BY <1>1, <2>1, <2>2, <2>3 DEF RetrievalInv, RetrievalSafe, NumberStays
<1>2. ASSUME NEW r \in 1 .. MaxTop, Keep(r) PROVE RetrievalInv'
  <2> DEFINE i == answer.hits[r]
  <2>1. /\ r \in DOMAIN answer.hits
        /\ hit' = [row |-> i, doc |-> rows[i].doc, path |-> PathAt(i), kept |-> TRUE]
        /\ answer' = NoAnswer /\ UNCHANGED <<shelf, rows, embedded>>
    BY <1>2 DEF Keep
  <2>2. i \in Chunks
    BY <2>1 DEF RetrievalInv
  <2>3. hit'.doc \in Indexed /\ hit'.path = shelf[hit'.doc]
    BY <2>1, <2>2 DEF RetrievalInv, PathAt
  <2> QED BY <1>1, <2>1, <2>3
<1>3. CASE Forget \/ Expand \/ PageOfHit \/ (\E p \in Books : PageByName(p)) \/ UNCHANGED retrievalVars
  <2>1. UNCHANGED <<shelf, rows, embedded>> /\ (answer' = answer \/ answer' = NoAnswer) /\ (hit' = hit \/ hit' = NoHit)
    BY <1>3 DEF Forget, Expand, PageOfHit, PageByName, retrievalVars
  <2> QED BY <1>1, <2>1
<1> QED BY <1>2, <1>3, IngestKeeps, DeleteKeeps, SearchKeeps DEF RetrievalNext

-----------------------------------------------------------------------------
(* The types of the files.                                                 *)

(* No file is filed under two keys, and what a journal holds, or a command *)
(* carries, was written.                                                   *)
OneKeyEach(filed) == \A k, l \in Keys : k # l /\ filed[k] # NoBox => filed[k] # filed[l]

AllSpent ==
    /\ held \in [BoxNumbers -> SUBSET spent] /\ spent \subseteq Texts
    /\ \A w \in Scribes : scribe[w] # Idle => scribe[w].text \in spent
    /\ share.kind = "share" => share.had \subseteq spent

FilesFit == FilesTypes /\ OneKeyEach(fileOf) /\ AllSpent

(* Opening a journal files one file, under one key.                        *)
LEMMA OpenedOnce ==
  ASSUME FilesTypes, OneKeyEach(fileOf), NEW key \in Keys, NEW f \in Keys, NEW o \in OpenedBox(key, f)
  PROVE  OneKeyEach(o.files)
<1> USE JournalFilesAssumption DEF FilesTypes, OneKeyEach
<1>1. CASE Adopts(key, f)
  <2>1. o.files = [fileOf EXCEPT ![key] = fileOf[f], ![f] = NoBox] /\ key # f /\ fileOf[f] # NoBox /\ fileOf[key] = NoBox
    BY <1>1 DEF OpenedBox, Adopts
  <2> QED BY <2>1
<1>2. CASE ~Adopts(key, f) /\ fileOf[key] = NoBox
  <2>1. o = [files |-> [fileOf EXCEPT ![key] = boxes + 1],
             labels |-> [label EXCEPT ![boxes + 1] = key], box |-> boxes + 1, made |-> boxes + 1]
        /\ boxes + 1 \in 1 .. MaxBoxes
    BY <1>2 DEF OpenedBox, BoxNumbers
  <2>2. \A k \in Keys : fileOf[k] # boxes + 1 /\ boxes + 1 # NoBox
    BY <2>1
  <2> QED BY <2>1, <2>2
<1>3. CASE ~Adopts(key, f) /\ fileOf[key] # NoBox
  BY <1>3 DEF OpenedBox
<1> QED BY <1>1, <1>2, <1>3

(* A session's text is spent when it begins.                               *)
LEMMA WritingFits ==
  ASSUME FilesFit,
         \/ \E w \in Scribes :
              \/ \E f \in Folders, t \in Texts : BeginAdd(w, f, t) \/ BeginImport(w, f, t)
              \/ FinishAdd(w)
         \/ \E f \in Folders : AdoptCut(f)
  PROVE  FilesFit'
<1> USE JournalFilesAssumption
<1>0. FilesTypes /\ OneKeyEach(fileOf) /\ AllSpent
  BY DEF FilesFit
<1>1. ASSUME NEW w \in Scribes, NEW f \in Folders, NEW t \in Texts, NEW key \in Keys, OpenFor(key, f, w, t)
      PROVE  FilesFit'
  <2>1. PICK o \in OpenedBox(key, f) :
               /\ fileOf' = o.files /\ label' = o.labels /\ boxes' = o.made
               /\ scribe' = [scribe EXCEPT ![w] = [kind |-> "add", box |-> o.box, text |-> t]]
    BY <1>1 DEF OpenFor
  <2>2. spent' = spent \cup {t} /\ UNCHANGED <<held, shares, share>> /\ f \in Keys
    BY <1>1 DEF OpenFor, Keys
  <2>3. /\ boxes' \in Nat /\ boxes <= boxes' /\ boxes' <= MaxBoxes
        /\ fileOf' \in [Keys -> (1 .. boxes') \cup {NoBox}]
        /\ label' \in [BoxNumbers -> Keys \cup {NoBox}]
        /\ o.box \in 1 .. boxes' /\ OneKeyEach(fileOf')
    BY <1>0, <2>1, <2>2, OpenedFits, OpenedOnce
  <2>4. scribe' \in [Scribes -> {Idle} \cup [kind : {"add"}, box : 1 .. boxes', text : Texts]]
    <3>1. 1 .. boxes \subseteq 1 .. boxes'
      BY <1>0, <2>3 DEF FilesTypes
    <3>2. [kind |-> "add", box |-> o.box, text |-> t] \in [kind : {"add"}, box : 1 .. boxes', text : Texts]
      BY <2>3
    <3>3. \A x \in Scribes : scribe[x] \in {Idle} \cup [kind : {"add"}, box : 1 .. boxes', text : Texts]
      BY <1>0, <3>1 DEF FilesTypes
    <3> QED BY <1>0, <2>1, <3>2, <3>3 DEF FilesTypes
  <2>5. FilesTypes'
    BY <1>0, <2>2, <2>3, <2>4 DEF FilesTypes
  <2>6. AllSpent'
    BY <1>0, <2>1, <2>2 DEF AllSpent, FilesTypes
  <2> QED BY <2>3, <2>5, <2>6 DEF FilesFit, OneKeyEach
<1>2. ASSUME NEW w \in Scribes, FinishAdd(w) PROVE FilesFit'
  <2>1. scribe[w].box \in BoxNumbers /\ scribe[w].text \in Texts /\ scribe[w].text \in spent
    BY <1>0, <1>2 DEF FinishAdd, FilesTypes, BoxNumbers, AllSpent
  <2>2. FilesTypes'
    BY <1>0, <1>2, <2>1 DEF FinishAdd, FilesTypes
  <2>3. AllSpent' /\ OneKeyEach(fileOf)'
    BY <1>0, <1>2, <2>1 DEF FinishAdd, FilesTypes, AllSpent, OneKeyEach
  <2> QED BY <2>2, <2>3 DEF FilesFit
<1>3. ASSUME NEW f \in Folders, AdoptCut(f) PROVE FilesFit'
  <2>1. f \in Keys /\ ResolvedKey(f) \in Keys
    BY <1>0, KeysAreKeys
  <2>2. FilesTypes'
    BY <1>0, <1>3, <2>1 DEF AdoptCut, FilesTypes
  <2> QED BY <1>0, <1>3, <2>2 DEF AdoptCut, FilesFit, OneKeyEach, AllSpent
<1>4. ASSUME NEW f \in Folders PROVE ResolvedKey(f) \in Keys /\ ProjectKey(f) \in Keys
  BY <1>0, KeysAreKeys
<1> QED BY <1>1, <1>2, <1>3, <1>4 DEF BeginAdd, BeginImport

(* What a share merges was held, and what it retires leaves its key.       *)
LEMMA SharingFit ==
  ASSUME FilesFit,
         \/ \E f, g \in Folders : \E key \in {ResolvedKey(f), ReadKey(f)} : BeginShare(f, g, key)
         \/ Merge \/ Retire \/ Record
  PROVE  FilesFit'
<1> USE JournalFilesAssumption
<1>0. FilesTypes /\ OneKeyEach(fileOf) /\ AllSpent
  BY DEF FilesFit
<1>1. ASSUME NEW f \in Folders, NEW g \in Folders, NEW key \in {ResolvedKey(f), ReadKey(f)},
             BeginShare(f, g, key)
      PROVE  FilesFit'
  <2>1. key \in Keys /\ ProjectKey(g) \in Keys
    BY <1>0, KeysAreKeys
  <2>2. PICK o \in OpenedBox(key, key) :
               /\ fileOf' = o.files /\ label' = o.labels /\ boxes' = o.made
               /\ share' \in {Idle, [kind |-> "share", step |-> "merge", with |-> f, folder |-> g, key |-> key,
                        own |-> ProjectKey(g), into |-> o.box,
                        had |-> IF fileOf[ProjectKey(g)] = NoBox THEN {} ELSE held[fileOf[ProjectKey(g)]]]}
    BY <1>1 DEF BeginShare
  <2>3. /\ boxes' \in Nat /\ boxes <= boxes' /\ boxes' <= MaxBoxes
        /\ fileOf' \in [Keys -> (1 .. boxes') \cup {NoBox}]
        /\ label' \in [BoxNumbers -> Keys \cup {NoBox}]
        /\ o.box \in 1 .. boxes' /\ OneKeyEach(fileOf')
    BY <1>0, <2>1, <2>2, OpenedFits, OpenedOnce
  <2>4. UNCHANGED <<held, shares, scribe, spent>>
    BY <1>1 DEF BeginShare
  <2>5. (IF fileOf[ProjectKey(g)] = NoBox THEN {} ELSE held[fileOf[ProjectKey(g)]]) \in (SUBSET Texts) \cap (SUBSET spent)
    BY <1>0, <2>1 DEF FilesTypes, BoxNumbers, AllSpent
  <2>6. share' \in {Idle} \cup Sharings /\ (share'.kind = "share" => share'.had \subseteq spent)
    <3>1. o.box \in BoxNumbers
      BY <2>3 DEF BoxNumbers
    <3> QED BY <2>1, <2>2, <2>5, <3>1 DEF Sharings, Idle
  <2>7. FilesTypes'
    <3>1. 1 .. boxes \subseteq 1 .. boxes'
      BY <1>0, <2>3 DEF FilesTypes
    <3>2. scribe \in [Scribes -> {Idle} \cup [kind : {"add"}, box : 1 .. boxes', text : Texts]]
      BY <1>0, <3>1 DEF FilesTypes
    <3> QED BY <1>0, <2>3, <2>4, <2>6, <3>2 DEF FilesTypes
  <2>8. AllSpent'
    BY <1>0, <2>4, <2>6 DEF AllSpent
  <2> QED BY <2>3, <2>7, <2>8 DEF FilesFit, OneKeyEach
<1>2. ASSUME share.kind = "share" PROVE share \in Sharings
  BY <1>0, <1>2 DEF FilesTypes, Idle, Unsharings, Dones
<1>3. ASSUME Merge PROVE FilesFit'
  <2>1. share \in Sharings /\ share.had \subseteq spent
    BY <1>0, <1>2, <1>3 DEF Merge, ShareAt, AllSpent
  <2>2. share' \in Sharings /\ share'.had = share.had
    BY <2>1, <1>3 DEF Merge, Sharings
  <2>3. share.into \in BoxNumbers /\ held' = [held EXCEPT ![share.into] = held[share.into] \cup share.had]
    BY <2>1, <1>3 DEF Merge, Sharings
  <2>4. held' \in [BoxNumbers -> SUBSET spent] /\ held' \in [BoxNumbers -> SUBSET Texts]
    BY <1>0, <2>1, <2>3 DEF AllSpent, FilesTypes
  <2>5. UNCHANGED <<fileOf, label, boxes, shares, scribe, spent>>
    BY <1>3 DEF Merge
  <2>6. FilesTypes'
    BY <1>0, <2>2, <2>4, <2>5 DEF FilesTypes
  <2> QED BY <1>0, <2>1, <2>2, <2>4, <2>5, <2>6 DEF FilesFit, AllSpent, OneKeyEach
<1>4. ASSUME Retire PROVE FilesFit'
  <2>1. share \in Sharings /\ share.had \subseteq spent
    BY <1>0, <1>2, <1>4 DEF Retire, ShareAt, AllSpent
  <2>2. share' \in Sharings /\ share'.had = share.had
    BY <2>1, <1>4 DEF Retire, Sharings
  <2>3. fileOf' = [fileOf EXCEPT ![share.own] = NoBox] /\ UNCHANGED <<held, label, boxes, shares, scribe, spent>>
    BY <1>4 DEF Retire
  <2>4. fileOf' \in [Keys -> (1 .. boxes) \cup {NoBox}] /\ OneKeyEach(fileOf')
    BY <1>0, <2>3 DEF FilesTypes, OneKeyEach
  <2>5. FilesTypes'
    BY <1>0, <2>2, <2>3, <2>4 DEF FilesTypes
  <2> QED BY <1>0, <2>1, <2>2, <2>3, <2>4, <2>5 DEF FilesFit, AllSpent, OneKeyEach
<1>5. ASSUME Record PROVE FilesFit'
  <2>1. share \in Sharings
    BY <1>2, <1>5 DEF Record, ShareAt
  <2>2. share.folder \in Folders /\ share.key \in Keys /\ share.had \subseteq Texts
    BY <2>1 DEF Sharings
  <2>3. share' \in Dones
    BY <2>2, <1>5 DEF Record, Dones
  <2>4. shares' = [shares EXCEPT ![share.folder] = share.key] /\ UNCHANGED <<fileOf, held, label, boxes, scribe, spent>>
    BY <1>5 DEF Record
  <2>5. FilesTypes'
    BY <1>0, <2>2, <2>3, <2>4 DEF FilesTypes
  <2> QED BY <1>0, <2>3, <2>4, <2>5 DEF FilesFit, AllSpent, OneKeyEach, Dones
<1> QED BY <1>1, <1>3, <1>4, <1>5

(* An unshare's copy is a new file.                                        *)
LEMMA UnsharingFit ==
  ASSUME FilesFit, (\E g \in Folders : BeginUnshare(g)) \/ Unrecord
  PROVE  FilesFit'
<1> USE JournalFilesAssumption
<1>0. FilesTypes /\ OneKeyEach(fileOf) /\ AllSpent
  BY DEF FilesFit
<1>1. ASSUME NEW g \in Folders, BeginUnshare(g) PROVE FilesFit'
  <2>1. /\ Reads(g) \in SUBSET Texts /\ ProjectKey(g) \in Keys
        /\ shares[g] # NoBox /\ shares[g] \in Keys
    <3>1. Reads(g) \in SUBSET Texts
      BY <1>0, KeysAreKeys DEF Reads, FilesTypes, BoxNumbers
    <3> QED BY <1>0, <1>1, <3>1, KeysAreKeys DEF FilesTypes, BeginUnshare
  <2>2. share' \in Unsharings /\ share'.kind = "unshare"
    BY <1>1, <2>1 DEF BeginUnshare, Unsharings
  <2>3. UNCHANGED <<shares, scribe, spent>>
    BY <1>1 DEF BeginUnshare
  <2>4. CASE fileOf[shares[g]] = NoBox
    <3>1. UNCHANGED <<fileOf, held, label, boxes>>
      BY <1>1, <2>4 DEF BeginUnshare
    <3>2. FilesTypes'
      BY <1>0, <2>2, <2>3, <3>1 DEF FilesTypes
    <3> QED BY <1>0, <2>2, <2>3, <3>1, <3>2 DEF FilesFit, AllSpent, OneKeyEach
  <2>5. CASE fileOf[shares[g]] # NoBox
    <3>1. /\ boxes + 1 \in BoxNumbers /\ boxes' = boxes + 1
          /\ fileOf' = [fileOf EXCEPT ![ProjectKey(g)] = boxes + 1]
          /\ held' = [held EXCEPT ![boxes + 1] = held[fileOf[shares[g]]]]
          /\ label' = [label EXCEPT ![boxes + 1] = ProjectKey(g)]
      BY <1>1, <2>5 DEF BeginUnshare
    <3>2. boxes' \in Nat /\ boxes' <= MaxBoxes /\ 1 .. boxes \subseteq 1 .. boxes' /\ boxes + 1 \in 1 .. boxes'
      BY <1>0, <3>1 DEF FilesTypes, BoxNumbers
    <3>3. fileOf' \in [Keys -> (1 .. boxes') \cup {NoBox}]
      BY <1>0, <2>1, <3>1, <3>2 DEF FilesTypes
    <3>4. OneKeyEach(fileOf')
      <4>1. \A k \in Keys : fileOf[k] # boxes + 1
        BY <1>0, <3>1 DEF FilesTypes, BoxNumbers
      <4> QED BY <1>0, <2>1, <3>1, <4>1 DEF OneKeyEach, FilesTypes
    <3>5. fileOf[shares[g]] \in BoxNumbers
      BY <1>0, <2>1, <2>5 DEF FilesTypes, BoxNumbers
    <3>6. held' \in [BoxNumbers -> SUBSET spent] /\ held' \in [BoxNumbers -> SUBSET Texts]
      BY <1>0, <3>1, <3>5 DEF AllSpent, FilesTypes
    <3>7. label' \in [BoxNumbers -> Keys \cup {NoBox}]
      BY <1>0, <2>1, <3>1 DEF FilesTypes
    <3>8. scribe \in [Scribes -> {Idle} \cup [kind : {"add"}, box : 1 .. boxes', text : Texts]]
      BY <1>0, <3>2 DEF FilesTypes
    <3>9. FilesTypes'
      BY <1>0, <2>2, <2>3, <3>2, <3>3, <3>6, <3>7, <3>8 DEF FilesTypes
    <3> QED BY <1>0, <2>2, <2>3, <3>4, <3>6, <3>9 DEF FilesFit, AllSpent, OneKeyEach
  <2> QED BY <2>4, <2>5
<1>2. ASSUME Unrecord PROVE FilesFit'
  <2>1. share \in Unsharings
    BY <1>0, <1>2 DEF Unrecord, ShareAt, FilesTypes, Idle, Sharings, Dones
  <2>2. share.folder \in Folders /\ share.had \subseteq Texts
    BY <2>1 DEF Unsharings
  <2>3. share' \in Dones
    BY <2>2, <1>2 DEF Unrecord, Dones
  <2>4. shares' = [shares EXCEPT ![share.folder] = NoBox] /\ UNCHANGED <<fileOf, held, label, boxes, scribe, spent>>
    BY <1>2 DEF Unrecord
  <2>5. FilesTypes'
    BY <1>0, <2>2, <2>3, <2>4 DEF FilesTypes
  <2> QED BY <1>0, <2>3, <2>4, <2>5 DEF FilesFit, AllSpent, OneKeyEach, Dones
<1> QED BY <1>1, <1>2

(* Files, labels and shares keep their types, and each file its key,       *)
(* through every command.                                                  *)
LEMMA FilesStayFit ==
  ASSUME FilesFit, FilesNext \/ UNCHANGED filesVars
  PROVE  FilesFit'
<1>0. FilesTypes /\ OneKeyEach(fileOf) /\ AllSpent
  BY DEF FilesFit
<1>1. CASE UNCHANGED filesVars
  <2>1. FilesTypes'
    BY <1>0, <1>1 DEF filesVars, FilesTypes
  <2> QED BY <1>0, <1>1, <2>1 DEF filesVars, FilesFit, OneKeyEach, AllSpent
<1>2. CASE EndCommand \/ FilesRestart
  <2>1. FilesTypes'
    BY <1>0, <1>2 DEF EndCommand, FilesRestart, FilesTypes
  <2>2. AllSpent' /\ OneKeyEach(fileOf)'
    BY <1>0, <1>2 DEF EndCommand, FilesRestart, AllSpent, OneKeyEach, Idle
  <2> QED BY <2>1, <2>2 DEF FilesFit
<1> QED BY <1>1, <1>2, WritingFits, SharingFit, UnsharingFit DEF FilesNext

(* These are the types of the files.                                       *)
LEMMA FilesTyped ==
  /\ FilesInit => FilesFit
  /\ FilesFit => FilesTypeOK
<1>1. FilesInit => FilesFit
  <2> SUFFICES ASSUME FilesInit PROVE FilesFit
    OBVIOUS
  <2>1. FilesTypes
    BY FilesInitInv DEF FilesInv
  <2>2. OneKeyEach(fileOf) /\ AllSpent
    BY DEF FilesInit, OneKeyEach, AllSpent, Idle
  <2> QED BY <2>1, <2>2 DEF FilesFit
<1>2. FilesFit => FilesTypeOK
  BY DEF FilesFit, FilesTypes, AllSpent, OneKeyEach, FilesTypeOK
<1> QED BY <1>1, <1>2

-----------------------------------------------------------------------------
(* The types of an archive.                                                *)

PackTypes == dump \in DumpTypes /\ dump.first \in 0 .. MaxNumber

(* What was landed is there when the links are numbered.                   *)
UnpackTypes ==
    /\ load \in LoadTypes /\ there \in Journals
    /\ load.step # "rest" => dump.step = "packed"
    /\ load.step = "entries" => load.n \in 1 .. Len(dump.out)
    /\ load.step = "links" => load.n = Len(dump.out) + 1
    /\ load.step \in {"entries", "links"} => \A k \in 1 .. load.n - 1 : Landing(k) \in Held(there)

CountTypes == loads \in 0 .. MaxLoads /\ deletes \in 0 .. MaxDeletes /\ marked \in BOOLEAN

(* A page holds entries as they are.                                       *)
LEMMA PageTyped ==
  ASSUME PackTypes, here \in Journals, ReadPage
  PROVE  PackTypes'
<1> USE ArchiveAssumption
<1> DEFINE from == Len(dump.out)
           n == Cardinality(Held(here))
           upto == IF from + PageSize < Len(Newest) THEN from + PageSize ELSE Len(Newest)
           m == IF upto > from THEN upto - from ELSE 0
           page == [k \in 1 .. m |-> [id |-> Newest[from + k], e |-> here[Newest[from + k]]]]
           out == dump.out \o page
           last == Len(out) - from < PageSize \/ Len(out) >= Total
           R == [id : EntryIds, e : Entry]
<1>1. dump' = [dump EXCEPT !.out = IF last THEN Replayed(out) ELSE out, !.step = IF last THEN "packed" ELSE "paging"]
  BY DEF ReadPage
<1>2. n \in Nat /\ Newest \in [1 .. n -> Held(here)] /\ Len(Newest) = n
  <2>1. n \in Nat
    BY HeldFinite
  <2>2. Newest \in [1 .. n -> Held(here)]
    BY ListedWhole
  <2>3. Len(Newest) = n
    BY <2>1, <2>2 DEF Newest
  <2> QED BY <2>1, <2>2, <2>3
<1>3. from \in Nat /\ dump.out \in Seq(R) /\ PageSize \in Nat
  BY DEF PackTypes, DumpTypes
<1>4. m \in Nat /\ \A k \in 1 .. m : from + k \in 1 .. n
  BY <1>2, <1>3
<1> HIDE DEF m, n
<1>5. \A k \in 1 .. m : page[k] \in R
  <2> TAKE k \in 1 .. m
  <2>1. Newest[from + k] \in Held(here)
    BY <1>2, <1>4
  <2> QED BY <2>1 DEF Held, Journals
<1>6. page \in Seq(R)
  <2>1. page \in [1 .. m -> R]
    BY <1>5
  <2> HIDE DEF page, R
  <2> QED BY <2>1, <1>4, FunctionIsSeq
<1> HIDE DEF page, R
<1>7. out \in Seq(R)
  BY <1>3, <1>6, ConcatParts
<1> HIDE DEF out
<1>8. Replayed(out) \in Seq(R)
  <2>1. Replayed(out) = [k \in 1 .. Len(out) |-> out[(Len(out) - k) + 1]]
    BY DEF Replayed, Reverse
  <2>2. Len(out) \in Nat /\ \A k \in 1 .. Len(out) : (Len(out) - k) + 1 \in 1 .. Len(out)
    BY <1>7
  <2>3. Replayed(out) \in [1 .. Len(out) -> R]
    BY <2>1, <2>2, <1>7
  <2> QED BY <2>2, <2>3, FunctionIsSeq
<1> HIDE DEF last
<1>9. dump' \in DumpTypes /\ dump'.first = dump.first
  <2>1. dump \in [step : {"rest", "paging", "packed"}, out : Seq(R), first : Nat, stays : SUBSET EntryIds]
    BY DEF PackTypes, DumpTypes, R
  <2>2. dump' \in [step : {"rest", "paging", "packed"}, out : Seq(R), first : Nat, stays : SUBSET EntryIds]
    BY <1>1, <1>7, <1>8, <2>1
  <2>3. dump'.first = dump.first
    BY <1>1, <2>1
  <2> QED BY <2>2, <2>3 DEF DumpTypes, R
<1> QED BY <1>9 DEF PackTypes

(* Links are numbered of what is there.                                    *)
LEMMA LinksTyped ==
  ASSUME PackTypes, UnpackTypes, LoadLinks
  PROVE  UnpackTypes'
<1> USE ArchiveAssumption
<1> DEFINE out == dump.out
           new(i) == UNION {Renumbered(a) : a \in {b \in ToSet(out) : load.ids[b.id] = i}}
<1>1. /\ load.step = "links" /\ load' = [load EXCEPT !.step = "done"] /\ UNCHANGED dump
      /\ there' = [i \in EntryIds |-> [there[i] EXCEPT !.links = @ \cup new(i)]]
  BY DEF LoadLinks
<1>2. out \in Seq([id : EntryIds, e : Entry]) /\ Len(out) \in Nat /\ DOMAIN out = 1 .. Len(out)
  BY DEF PackTypes, DumpTypes
<1>3. \A b \in ToSet(out) : b \in [id : EntryIds, e : Entry] /\ load.ids[b.id] \in Held(there)
  <2> SUFFICES ASSUME NEW b \in ToSet(out) PROVE b \in [id : EntryIds, e : Entry] /\ load.ids[b.id] \in Held(there)
    OBVIOUS
  <2>1. PICK k \in 1 .. Len(out) : b = out[k]
    BY <1>2 DEF ToSet
  <2>2. k \in 1 .. load.n - 1
    BY <1>1, <1>2 DEF UnpackTypes
  <2>3. Landing(k) \in Held(there)
    BY <1>1, <2>2 DEF UnpackTypes
  <2>4. b \in [id : EntryIds, e : Entry]
    <3> DEFINE R == [id : EntryIds, e : Entry]
    <3>1. out \in Seq(R)
      BY <1>2
    <3> HIDE DEF R
    <3>2. out[k] \in R
      BY <3>1
    <3> QED BY <2>1, <3>2 DEF R
  <2>5. load.ids[b.id] \in Held(there)
    BY <2>1, <2>3 DEF Landing
  <2> QED BY <2>4, <2>5
<1>4. \A i \in EntryIds : load.ids[i] \in 0 .. MaxNumber
  BY DEF UnpackTypes, LoadTypes
<1>5. \A b \in ToSet(out) : Renumbered(b) \subseteq EntryIds
  <2> SUFFICES ASSUME NEW b \in ToSet(out), NEW l \in b.e.links, load.ids[l] # 0 PROVE load.ids[l] \in EntryIds
    BY DEF Renumbered
  <2>1. l \in EntryIds
    BY <1>3 DEF Entry
  <2>2. load.ids[l] \in 0 .. MaxNumber
    BY <1>4, <2>1
  <2> QED BY <2>2 DEF EntryIds
<1>6. ASSUME NEW i \in EntryIds PROVE there'[i] \in Entry \cup {NoEntry} /\ (i \in Held(there) => there'[i] # NoEntry)
  <2>1. there'[i] = [there[i] EXCEPT !.links = there[i].links \cup new(i)]
    BY <1>1
  <2>2. new(i) \subseteq EntryIds
    BY <1>5
  <2>3. i \notin Held(there) => new(i) = {}
    BY <1>3
  <2> HIDE DEF new
  <2>4. CASE i \in Held(there)
    <3>1. there[i] \in Entry
      BY <2>4 DEF UnpackTypes, Journals, Held
    <3>2. there'[i] \in Entry /\ there'[i].text \in Notes
      BY <2>1, <2>2, <3>1 DEF Entry
    <3> QED BY <3>2 DEF NoEntry
  <2>5. CASE i \notin Held(there)
    <3>1. there[i] = NoEntry
      BY <2>5 DEF Held
    <3> QED BY <2>1, <2>3, <2>5, <3>1 DEF NoEntry
  <2> QED BY <2>4, <2>5
<1>7. there' \in Journals
  BY <1>1, <1>6 DEF Journals
<1>8. load' \in LoadTypes /\ load'.step = "done"
  BY <1>1 DEF UnpackTypes, LoadTypes
<1> QED BY <1>1, <1>7, <1>8 DEF UnpackTypes

(* An entry lands where there is room.                                     *)
LEMMA EntryTyped ==
  ASSUME PackTypes, UnpackTypes, LoadEntry
  PROVE  UnpackTypes'
<1> USE ArchiveAssumption
<1>1. load.step = "entries" /\ load.n \in 1 .. Len(dump.out) /\ dump.step = "packed" /\ there \in Journals /\ load \in LoadTypes
  BY DEF LoadEntry, UnpackTypes
<1> DEFINE R == [id : EntryIds, e : Entry]
<1>o. dump.out \in Seq(R)
  BY DEF PackTypes, DumpTypes
<1> HIDE DEF R
<1>p. dump.out[load.n] \in R
  BY <1>1, <1>o
<1>2. PICK a \in R : a = dump.out[load.n]
  BY <1>p
<1>3. /\ HasRoom(there, a.e) /\ there' = Added(there, a.e) /\ UNCHANGED dump
      /\ load' = [load EXCEPT !.step = IF load.n = Len(dump.out) THEN "links" ELSE "entries",
                              !.n = load.n + 1, !.ids[a.id] = Home(there, a.e)]
  BY <1>2 DEF LoadEntry
<1>4. a.id \in EntryIds /\ a.e \in Entry
  BY <1>2 DEF R
<1> DEFINE h == Home(there, a.e)
<1>5. /\ there' \in Journals /\ h \in EntryIds /\ there'[h] \in Entry
      /\ \A i \in EntryIds : i # h => there'[i] = there[i]
  BY <1>1, <1>3, <1>4, AddedFits DEF HasRoom
<1> HIDE DEF h
<1>6. h \in Held(there') /\ Held(there) \subseteq Held(there')
  <2>1. there'[h] # NoEntry
    BY <1>5 DEF Entry, NoEntry
  <2> QED BY <1>5, <2>1 DEF Held
<1>7. h \in 0 .. MaxNumber
  BY <1>5 DEF EntryIds
<1>9. Len(dump.out) \in Nat
  BY <1>o
<1> DEFINE s == IF load.n = Len(dump.out) THEN "links" ELSE "entries"
<1>l. /\ load = [step |-> load.step, n |-> load.n, ids |-> load.ids, again |-> load.again]
      /\ load.ids \in [EntryIds -> 0 .. MaxNumber] /\ load.again \in BOOLEAN /\ load.n \in Nat
  BY <1>1 DEF LoadTypes
<1>m. load' = [step |-> s, n |-> load.n + 1, ids |-> [load.ids EXCEPT ![a.id] = h], again |-> load.again]
  BY <1>3, <1>l DEF h
<1>i. [load.ids EXCEPT ![a.id] = h] \in [EntryIds -> 0 .. MaxNumber]
  BY <1>l, <1>4, <1>7
<1>s. s \in {"rest", "entries", "links", "done"}
  OBVIOUS
<1> HIDE DEF s
<1>8. /\ load' \in LoadTypes /\ load'.n = load.n + 1 /\ load'.ids = [load.ids EXCEPT ![a.id] = h]
      /\ load'.step = s
  BY <1>m, <1>i, <1>l, <1>s DEF LoadTypes
<1> USE DEF s
<1>10. ASSUME NEW k \in 1 .. load.n PROVE Landing(k)' \in Held(there')
  <2>k. k \in 1 .. Len(dump.out)
    BY <1>1, <1>9
  <2>1. dump.out[k] \in R
    BY <1>o, <2>k
  <2>r. dump.out[k].id \in EntryIds
    BY <2>1 DEF R
  <2>2. CASE dump.out[k].id = a.id
    BY <1>1, <1>3, <1>4, <1>6, <1>8, <2>2 DEF Landing, LoadTypes
  <2>3. CASE dump.out[k].id # a.id
    <3>1. k \in 1 .. load.n - 1
      BY <1>1, <1>2, <1>9, <2>3
    <3>2. load.ids[dump.out[k].id] \in Held(there)
      BY <1>1, <3>1 DEF UnpackTypes, Landing
    <3> QED BY <1>1, <1>3, <1>6, <1>8, <2>r, <2>3, <3>2 DEF Landing, LoadTypes
  <2> QED BY <2>2, <2>3
<1>11. load.n + 1 - 1 = load.n /\ (load.n # Len(dump.out) => load.n + 1 \in 1 .. Len(dump.out))
  BY <1>1, <1>9
<1> QED BY <1>1, <1>3, <1>5, <1>8, <1>10, <1>11 DEF UnpackTypes

(* An archive that is written, and one that is loaded, keep their types,   *)
(* and what was landed is there, whatever was deleted and whoever died.    *)
LEMMA ArchiveStaysTyped ==
  ASSUME InsightsInv, PackTypes, UnpackTypes, ArchiveNext \/ UNCHANGED archiveVars
  PROVE  PackTypes' /\ UnpackTypes'
<1> USE ArchiveAssumption
<1>1. ASSUME UNCHANGED <<there, dump, load>> PROVE PackTypes' /\ UnpackTypes'
  BY <1>1 DEF PackTypes, UnpackTypes, Landing, Held
<1>2. CASE \/ Tick \/ \E t \in Notes, flag \in {"none", "open"}, linked \in {{}} \cup {{i} : i \in EntryIds} : Write(t, flag, linked)
           \/ \E i \in EntryIds : CloseEntry(i)
           \/ \E o \in Callers : CopyInsight(o) \/ MarkImported(o) \/ OpenerDies(o)
           \/ UNCHANGED archiveVars
  <2>1. UNCHANGED <<there, dump, load>>
    BY <1>2 DEF Tick, Write, CloseEntry, CopyInsight, MarkImported, OpenerDies, archiveVars
  <2> QED BY <1>1, <2>1
<1>3. ASSUME NEW i \in EntryIds, DropEntry(i) PROVE PackTypes' /\ UnpackTypes'
  <2>1. dump.step # "packed" /\ dump' = [dump EXCEPT !.stays = dump.stays \ {i}] /\ UNCHANGED <<there, load>>
    BY <1>3 DEF DropEntry
  <2>2. PackTypes'
    BY <2>1 DEF PackTypes, DumpTypes
  <2>3. load.step = "rest"
    BY <2>1 DEF UnpackTypes
  <2> QED BY <2>1, <2>2, <2>3 DEF UnpackTypes
<1>4. CASE StartDump \/ ReadPage
  <2>1. dump.step # "packed" /\ UNCHANGED <<there, load>>
    BY <1>4 DEF StartDump, ReadPage
  <2>2. PackTypes'
    <3>1. CASE StartDump
      <4>1. dump' = [step |-> "paging", out |-> <<>>, first |-> Cardinality(Held(here)), stays |-> Held(here)]
        BY <3>1 DEF StartDump
      <4>2. Cardinality(Held(here)) \in 0 .. MaxNumber
        <5>1. Held(here) \in SUBSET (1 .. MaxNumber) /\ MaxNumber \in Nat
          BY DEF Held, EntryIds
        <5>n. 1 \in Int /\ MaxNumber \in Int
          BY <5>1
        <5>m. IsFiniteSet(1 .. MaxNumber) /\ Cardinality(1 .. MaxNumber) = IF 1 > MaxNumber THEN 0 ELSE MaxNumber - 1 + 1
          BY <5>n, FS_Interval
        <5>2. IsFiniteSet(1 .. MaxNumber) /\ Cardinality(1 .. MaxNumber) = MaxNumber
          BY <5>1, <5>m
        <5>3. Cardinality(Held(here)) <= MaxNumber /\ Cardinality(Held(here)) \in Nat
          BY <5>1, <5>2, FS_Subset, FS_CardinalityType
        <5> QED BY <5>1, <5>3
      <4>3. Held(here) \subseteq EntryIds
        BY DEF Held
      <4> QED BY <4>1, <4>2, <4>3 DEF PackTypes, DumpTypes
    <3>2. CASE ReadPage
      BY <3>2, PageTyped DEF InsightsInv
    <3> QED BY <1>4, <3>1, <3>2
  <2>3. load.step = "rest"
    BY <2>1 DEF UnpackTypes
  <2> QED BY <2>1, <2>2, <2>3 DEF UnpackTypes
<1>5. ASSUME UNCHANGED dump PROVE PackTypes'
  BY <1>5 DEF PackTypes
<1>6. CASE StartLoading
  <2>1. /\ dump.step = "packed" /\ UNCHANGED <<there, dump>>
        /\ load' = [step |-> IF dump.out = <<>> THEN "links" ELSE "entries",
                    n |-> 1, ids |-> [i \in EntryIds |-> 0], again |-> load.step = "done"]
    BY <1>6 DEF StartLoading
  <2>2. load' \in LoadTypes /\ load'.n = 1 /\ load'.step = IF dump.out = <<>> THEN "links" ELSE "entries"
    BY <2>1 DEF LoadTypes
  <2>3. Len(dump.out) \in Nat /\ (dump.out = <<>> <=> Len(dump.out) = 0)
    BY DEF PackTypes, DumpTypes
  <2> QED BY <1>5, <2>1, <2>2, <2>3 DEF UnpackTypes
<1>7. CASE LoadDies
  <2>1. load' = [load EXCEPT !.step = "rest"] /\ UNCHANGED <<there, dump>>
    BY <1>7 DEF LoadDies
  <2>2. load' \in LoadTypes /\ load'.step = "rest"
    BY <2>1 DEF UnpackTypes, LoadTypes
  <2> QED BY <1>5, <2>1, <2>2 DEF UnpackTypes
<1>8. CASE LoadEntry \/ LoadLinks
  BY <1>5, <1>8, EntryTyped, LinksTyped DEF LoadEntry, LoadLinks
<1> QED BY <1>2, <1>3, <1>4, <1>6, <1>7, <1>8 DEF ArchiveNext

(* The counts stay within their bounds.                                    *)
LEMMA CountsStayTyped ==
  ASSUME CountTypes, ArchiveNext \/ UNCHANGED archiveVars
  PROVE  CountTypes'
<1> USE ArchiveAssumption DEF CountTypes
<1>1. CASE \/ Tick \/ \E t \in Notes, flag \in {"none", "open"}, linked \in {{}} \cup {{i} : i \in EntryIds} : Write(t, flag, linked)
           \/ \E i \in EntryIds : CloseEntry(i)
           \/ \E o \in Callers : CopyInsight(o) \/ MarkImported(o) \/ OpenerDies(o)
           \/ UNCHANGED archiveVars
  BY <1>1 DEF Tick, Write, CloseEntry, CopyInsight, MarkImported, OpenerDies, archiveVars
<1>2. ASSUME NEW i \in EntryIds, DropEntry(i) PROVE CountTypes'
  BY <1>2 DEF DropEntry
<1>3. CASE StartLoading
  BY <1>3 DEF StartLoading
<1>4. CASE StartDump \/ ReadPage \/ LoadEntry \/ LoadLinks \/ LoadDies
  BY <1>4 DEF StartDump, ReadPage, LoadEntry, LoadLinks, LoadDies
<1> QED BY <1>1, <1>2, <1>3, <1>4 DEF ArchiveNext

(* With the invariant of the insights these are the archive's types.       *)
LEMMA ArchiveTyped ==
  /\ ArchiveInit => PackTypes /\ UnpackTypes /\ CountTypes
  /\ InsightsInv /\ PackTypes /\ UnpackTypes /\ CountTypes => ArchiveTypeOK
<1> USE ArchiveAssumption
<1>1. ASSUME ArchiveInit PROVE PackTypes /\ UnpackTypes /\ CountTypes
  <2>a. PackTypes
    BY <1>1 DEF ArchiveInit, PackTypes, DumpTypes
  <2>b. CountTypes
    <3>1. loads = 0 /\ deletes = 0 /\ marked = FALSE
      BY <1>1 DEF ArchiveInit
    <3>2. MaxLoads \in Nat /\ MaxDeletes \in Nat
      BY DEF ArchiveAssumption
    <3>3. loads \in 0 .. MaxLoads /\ deletes \in 0 .. MaxDeletes
      BY <3>1, <3>2
    <3>4. marked \in BOOLEAN
      BY <3>1
    <3> QED BY <3>3, <3>4 DEF CountTypes
  <2>1. PackTypes /\ CountTypes
    BY <2>a, <2>b
  <2>2. there \in Journals /\ load \in LoadTypes /\ load.step = "rest"
    BY <1>1 DEF ArchiveInit, Journals, LoadTypes
  <2> QED BY <2>1, <2>2 DEF UnpackTypes
<1>2. ASSUME InsightsInv, PackTypes, UnpackTypes, CountTypes PROVE ArchiveTypeOK
  <2>1. dump.step \in {"rest", "paging", "packed"} /\ dump.out \in Seq([id : EntryIds, e : Entry]) /\ dump.stays \subseteq EntryIds
    BY <1>2 DEF PackTypes, DumpTypes
  <2>2. load.step \in {"rest", "entries", "links", "done"} /\ load.ids \in [EntryIds -> 0 .. MaxNumber] /\ load.again \in BOOLEAN
    BY <1>2 DEF UnpackTypes, LoadTypes
  <2> QED BY <1>2, <2>1, <2>2 DEF InsightsInv, PackTypes, UnpackTypes, CountTypes, ArchiveTypeOK
<1> QED BY <1>1, <1>2

-----------------------------------------------------------------------------
(* The types of the parts: conversations that are copied.                  *)

(* Which transcripts are whole, and whose nick and journal came along.     *)
Transcripts == {Transcript(f, id) : f \in Projects, id \in Ids}
CarriedTypes == whole \subseteq Transcripts /\ named \subseteq Ids /\ imported \subseteq Ids

(* What is copied are transcripts, and what is named are sessions.         *)
LEMMA CarriedStays ==
  ASSUME TransferInv, CarriedTypes, TransferNext \/ UNCHANGED transferVars
  PROVE  CarriedTypes'
<1>0. TransferTypes
  BY DEF TransferInv
<1>1. CASE UNCHANGED transferVars
  BY <1>1 DEF transferVars, CarriedTypes
<1>2. ASSUME NEW c \in Commands, command[c].kind \in {"load", "clone"}
      PROVE  Transcript(command[c].folder, command[c].id) \in Transcripts /\ command[c].id \in Ids
  BY <1>0, <1>2, CommandShape DEF Loads, Clones, Transcripts, Ids
<1>3. ASSUME NEW c \in Commands, NEW f \in Projects, NEW id \in Ids,
             Converse(f, id, c) \/ BeginClone(c, f, id) \/ BeginDump(c, f, id)
      PROVE  CarriedTypes'
  BY <1>3 DEF Converse, BeginClone, BeginDump, CarriedTypes, Transcripts
<1>4. ASSUME NEW c \in Commands, PlaceTranscript(c) PROVE CarriedTypes'
  BY <1>4, <1>2 DEF PlaceTranscript, At, CarriedTypes
<1>5. ASSUME NEW c \in Commands, LoadNick(c) \/ LoadJournal(c) PROVE CarriedTypes'
  BY <1>5, <1>2 DEF LoadNick, LoadJournal, At, CarriedTypes
<1>6. ASSUME NEW c \in Commands, FinishClone(c) PROVE CarriedTypes'
  <2>1. command[c].kind = "clone" /\ command[c].id = c
    BY <1>0, <1>6, CommandShape DEF FinishClone, At
  <2> QED BY <2>1, <1>6, <1>2 DEF FinishClone, CarriedTypes
<1>7. ASSUME NEW c \in Commands,
             \/ \E f \in Projects, id \in Conversations, newId \in BOOLEAN, sides \in SUBSET Side, nick \in BOOLEAN :
                  BeginLoad(c, f, id, newId, sides, nick)
             \/ PlaceSession(c) \/ PlaceHistory(c) \/ LoadFails(c) \/ CopySession(c) \/ CopyHistory(c)
             \/ CreateTranscript(c) \/ CloneFails(c) \/ FinishDump(c) \/ DumpFails(c) \/ Killed(c)
      PROVE  CarriedTypes'
  BY <1>7 DEF BeginLoad, PlaceSession, PlaceHistory, PlaceDir, LoadFails, CopySession, CopyHistory, CopyDir,
              CreateTranscript, CloneFails, FinishDump, DumpFails, Killed, CarriedTypes
<1> QED BY <1>1, <1>3, <1>4, <1>5, <1>6, <1>7, ZenonT(60) DEF TransferNext

(* With the invariant of the copies these are their types.                 *)
LEMMA TransferTyped ==
  /\ TransferInit => CarriedTypes
  /\ TransferInv /\ CarriedTypes => TransferTypeOK
<1>1. TransferInit => CarriedTypes
  BY DEF TransferInit, CarriedTypes
<1>2. ASSUME TransferInv, CarriedTypes PROVE TransferTypeOK
  <2>1. \A c \in Commands : command[c].kind \in {"none", "claude", "load", "clone", "dump"}
    BY <1>2 DEF TransferInv, TransferTypes, Loads, Clones, Dumps, OtherCommands
  <2> QED BY <1>2, <2>1 DEF TransferInv, TransferTypes, CarriedTypes, Transcripts, TransferTypeOK
<1> QED BY <1>1, <1>2

-----------------------------------------------------------------------------
(* The types of the index.                                                 *)

(* Every chunk is one of a document of the index, with the others of it.   *)
DocsWhole ==
    /\ pages = [p \in Paths |-> pages[p]]
    /\ \A i \in Rows : chunks[i] = NoChunk \/ chunks[i].path \in Paths
    /\ \A p \in Paths : (RowsOf(p) # {} \/ pages[p] # NoContent) => docs[p] # NoContent
    /\ \A i, j \in Rows : chunks[i] # NoChunk /\ chunks[i].path = chunks[j].path
                            => chunks[i].text[1] = chunks[j].text[1]

(* What is to be committed is something a file can hold.                   *)
TextsRead == \A w \in Workers : job[w].step = "commit" => job[w].text \in Contents

(* A document that is replaced has the new content's chunks; the others    *)
(* stay.                                                                   *)
LEMMA ReplacedWhole ==
  ASSUME LibraryInv, DocsWhole, NEW p \in Paths, NEW c \in Contents \cup {NoContent}, chunks' = Replaced(p, c),
         pages' = [pages EXCEPT ![p] = c], NEW d \in Contents \cup {NoContent}, docs' = [docs EXCEPT ![p] = d],
         d = NoContent => c = NoContent
  PROVE  DocsWhole'
<1> USE LibraryAssumption
<1>1. ASSUME NEW i \in Rows
      PROVE  /\ chunks'[i] = NoChunk \/ chunks'[i].path \in Paths
             /\ chunks'[i].path = p => chunks'[i].text[1] = c /\ c # NoContent
             /\ chunks'[i].path # p => chunks'[i] = chunks[i] \/ chunks'[i] = NoChunk
  BY DEF Replaced, ChunkText, NoChunk, DocsWhole
<1>2. \A q \in Paths : q # p => docs'[q] = docs[q] /\ pages'[q] = pages[q]
  BY DEF LibraryInv, DocsWhole
<1>3. docs'[p] = d /\ pages'[p] = c /\ pages' = [q \in Paths |-> pages'[q]]
  BY DEF LibraryInv, DocsWhole
<1>4. ASSUME NEW q \in Paths, RowsOf(q)' # {} \/ pages'[q] # NoContent PROVE docs'[q] # NoContent
  <2>1. CASE q = p
    BY <1>1, <1>3, <1>4, <2>1 DEF RowsOf
  <2>2. CASE q # p
    <3>1. \A i \in Rows : chunks'[i].path = q => chunks[i].path = q
      BY <1>1, <2>2 DEF NoChunk
    <3> QED BY <1>2, <1>4, <2>2, <3>1 DEF RowsOf, DocsWhole
  <2> QED BY <2>1, <2>2
<1>5. ASSUME NEW i \in Rows, NEW j \in Rows, chunks'[i] # NoChunk, chunks'[i].path = chunks'[j].path
      PROVE  chunks'[i].text[1] = chunks'[j].text[1]
  <2>1. chunks'[j] # NoChunk
    BY <1>1, <1>5 DEF NoChunk
  <2> QED BY <1>1, <1>5, <2>1 DEF DocsWhole
<1> QED BY <1>1, <1>3, <1>4, <1>5 DEF DocsWhole

(* A text to be committed is one that a file had.                          *)
LEMMA TextsStayRead ==
  ASSUME LibraryInv, TextsRead, LibraryNext \/ UNCHANGED libraryVars
  PROVE  TextsRead'
<1> USE DEF TextsRead, LibraryInv
<1>1. ASSUME NEW w \in Workers, NEW j, job' = [job EXCEPT ![w] = j], j.step = "commit" => j.text \in Contents
      PROVE  TextsRead'
  BY <1>1
<1>2. ASSUME UNCHANGED job PROVE TextsRead'
  BY <1>2
<1>3. ASSUME NEW w \in Workers, ReadText(w) PROVE TextsRead'
  <2>1. job[w].path \in Paths
    BY <1>3 DEF ReadText, JobKnows
  <2>2. CASE job' = [job EXCEPT ![w] = [step |-> "commit", path |-> job[w].path, sha |-> job[w].sha,
                                        text |-> onDisk[job[w].path]]]
    <3>1. onDisk[job[w].path] \in Contents
      BY <2>1
    <3> QED BY <1>1, <2>2, <3>1
  <2>3. CASE job' = [job EXCEPT ![w] = Resting]
    BY <1>1, <2>3 DEF Resting
  <2> QED BY <1>3, <2>2, <2>3 DEF ReadText
<1>4. ASSUME NEW w \in Workers, NEW p \in Paths, ReadBytes(w, p) PROVE TextsRead'
  BY <1>4 DEF ReadBytes
<1>5. ASSUME NEW w \in Workers, Commit(w) \/ StoreVectors(w) \/ KillIngest(w) PROVE TextsRead'
  BY <1>5 DEF Commit, StoreVectors, KillIngest, Resting
<1>6. ASSUME NEW w \in Workers, Encode(w) PROVE TextsRead'
  BY <1>6 DEF Encode, Resting, JobKnows
<1>7. ASSUME NEW w \in Workers, FetchIds(w) PROVE TextsRead'
  <2> DEFINE new == IF Cardinality(RowsOf(job[w].path)) # SizeOf[job[w].text] THEN Resting
                    ELSE [step |-> "store", text |-> job[w].text,
                          ids |-> [k \in 1 .. SizeOf[job[w].text] |-> RowOf(job[w].path, k)]]
  <2>1. job' = [job EXCEPT ![w] = new]
    BY <1>7 DEF FetchIds
  <2>2. new.step # "commit"
    BY DEF Resting
  <2> HIDE DEF new
  <2> QED BY <1>1, <2>1, <2>2
<1>8. (\E p \in Paths : DeleteDoc(p) \/ ReindexPages(p) \/ \E c \in Contents : Edit(p, c))
        \/ UNCHANGED libraryVars => UNCHANGED job
  BY DEF DeleteDoc, ReindexPages, Edit, libraryVars
<1> QED BY <1>2, <1>3, <1>4, <1>5, <1>6, <1>7, <1>8 DEF LibraryNext

(* Rows are of one document each, whoever ingests it.                      *)
LEMMA DocsStayWhole ==
  ASSUME LibraryInv, DocsWhole, TextsRead, LibraryNext \/ UNCHANGED libraryVars
  PROVE  DocsWhole'
<1>1. ASSUME UNCHANGED <<docs, chunks, pages>> PROVE DocsWhole'
  BY <1>1 DEF DocsWhole, RowsOf
<1>2. ASSUME NEW p \in Paths, DeleteDoc(p) PROVE DocsWhole'
  <2>1. /\ chunks' = Replaced(p, NoContent) /\ pages' = [pages EXCEPT ![p] = NoContent]
        /\ docs' = [docs EXCEPT ![p] = NoContent]
    BY <1>2 DEF DeleteDoc
  <2>2. NoContent \in Contents \cup {NoContent}
    OBVIOUS
  <2> QED BY <2>1, <2>2, ReplacedWhole
<1>3. ASSUME NEW p \in Paths, ReindexPages(p) PROVE DocsWhole'
  BY <1>3 DEF ReindexPages, DocsWhole, RowsOf
<1>4. ASSUME NEW w \in Workers, Commit(w) PROVE DocsWhole'
  <2> DEFINE p == job[w].path
             c == job[w].text
             d == job[w].sha
  <2>1. p \in Paths /\ d \in Contents /\ c \in Contents \cup {NoContent}
    BY <1>4 DEF Commit, LibraryInv, JobKnows, TextsRead
  <2>2. d # NoContent
    BY <2>1, LibraryAssumption
  <2>3. chunks' = Replaced(p, c) /\ pages' = [pages EXCEPT ![p] = c] /\ docs' = [docs EXCEPT ![p] = d]
    BY <1>4 DEF Commit
  <2> HIDE DEF p, c, d
  <2> QED BY <2>1, <2>2, <2>3, ReplacedWhole
<1>5. ASSUME NEW w \in Workers,
             ReadText(w) \/ Encode(w) \/ FetchIds(w) \/ StoreVectors(w) \/ KillIngest(w)
             \/ \E p \in Paths : ReadBytes(w, p)
      PROVE  DocsWhole'
  BY <1>1, <1>5 DEF ReadBytes, ReadText, Encode, FetchIds, StoreVectors, KillIngest
<1>6. ASSUME NEW p \in Paths, NEW c \in Contents, Edit(p, c) PROVE DocsWhole'
  BY <1>1, <1>6 DEF Edit
<1> QED BY <1>1, <1>2, <1>3, <1>4, <1>5, <1>6 DEF LibraryNext, libraryVars

(* With the invariant of the index these are its types.                    *)
LEMMA LibraryTyped ==
  /\ LibraryInit => DocsWhole /\ TextsRead
  /\ LibraryInv /\ DocsWhole => LibraryTypeOK
<1>1. LibraryInit => DocsWhole /\ TextsRead
  BY LibraryAssumption DEF LibraryInit, DocsWhole, TextsRead, Resting, RowsOf, NoChunk
<1>2. LibraryInv /\ DocsWhole => LibraryTypeOK
  BY DEF LibraryInv, DocsWhole, LibraryTypeOK
<1> QED BY <1>1, <1>2

-----------------------------------------------------------------------------
(* The types of the search.                                                *)

Hits == [row : 0 .. MaxChunk, doc : 0 .. MaxDoc, path : Books \cup {None}, kept : BOOLEAN]

RowsTyped ==
    /\ stamped \in [Docs -> 0 .. MaxIngests]
    /\ rows \in [ChunkNumbers -> [doc : 0 .. MaxDoc, ord : 0 .. MaxChunk]]
    /\ clock \in 0 .. MaxIngests

HitsTyped ==
    /\ answer.mode \in {"none", "lexical", "dense", "hybrid"}
    /\ hit \in Hits /\ shown \in (Books \cup {None}) \X (Books \cup {None})

(* The numbers that are given out are within the bounds.                   *)
LEMMA ReplacedTyped ==
  ASSUME RetrievalInv, RowsTyped, NEW p, NEW d \in Docs, NEW many \in Nat,
         many = 0 \/ NewRows(p, many) \subseteq ChunkNumbers, rows' = ChunksOf(p, d, many)
  PROVE  rows' \in [ChunkNumbers -> [doc : 0 .. MaxDoc, ord : 0 .. MaxChunk]]
<1> DEFINE m == Max(OtherChunks(p) \cup {0})
<1>1. m \in Nat /\ MaxChunk \in Nat /\ MaxDoc \in Nat
  <2>1. OtherChunks(p) \cup {0} \in SUBSET (0 .. MaxChunk) /\ MaxChunk \in Nat /\ MaxDoc \in Nat
    BY RetrievalAssumption DEF OtherChunks, Chunks, ChunkNumbers
  <2>2. m \in OtherChunks(p) \cup {0}
    BY <2>1, LargestIsLargest
  <2> QED BY <2>1, <2>2
<1>2. NewRows(p, many) = (m + 1) .. (m + many)
  BY DEF NewRows
<1> HIDE DEF m
<1>3. many = 0 => NewRows(p, many) = {}
  BY <1>1, <1>2
<1>4. many # 0 => Min(NewRows(p, many)) = m + 1
  <2> SUFFICES ASSUME many # 0 PROVE Min((m + 1) .. (m + many)) = m + 1
    BY <1>2
  <2>1. m + 1 \in (m + 1) .. (m + many) /\ \A y \in (m + 1) .. (m + many) : m + 1 <= y
    BY <1>1
  <2>2. \A x \in (m + 1) .. (m + many) : (\A y \in (m + 1) .. (m + many) : x <= y) => x = m + 1
    BY <1>1, <2>1
  <2> QED BY <2>1, <2>2 DEF Min
<1>5. ASSUME NEW i \in ChunkNumbers PROVE rows'[i] \in [doc : 0 .. MaxDoc, ord : 0 .. MaxChunk]
  <2>1. rows'[i] = IF i \in OtherChunks(p) THEN rows[i]
                   ELSE IF i \in NewRows(p, many) THEN [doc |-> d, ord |-> i + 1 - Min(NewRows(p, many))] ELSE NoRow
    BY DEF ChunksOf
  <2>2. CASE i \in OtherChunks(p)
    BY <2>1, <2>2 DEF RowsTyped
  <2>3. CASE i \notin OtherChunks(p) /\ i \in NewRows(p, many)
    <3>1. many # 0 /\ i \in (m + 1) .. (m + many) /\ i \in 1 .. MaxChunk /\ d \in 1 .. MaxDoc
      BY <1>2, <1>3, <2>3 DEF ChunkNumbers, Docs
    <3>2. rows'[i] = [doc |-> d, ord |-> i + 1 - (m + 1)]
      BY <1>4, <2>1, <2>3, <3>1
    <3>3. i + 1 - (m + 1) \in 0 .. MaxChunk /\ d \in 0 .. MaxDoc
      BY <1>1, <3>1
    <3> QED BY <3>2, <3>3
  <2>4. CASE i \notin OtherChunks(p) /\ i \notin NewRows(p, many)
    BY <1>1, <2>1, <2>4 DEF NoRow
  <2> QED BY <2>2, <2>3, <2>4
<1> QED BY <1>5 DEF ChunksOf

(* A chunk and a document get numbers that fit, whichever are free.        *)
LEMMA RowsStayTyped ==
  ASSUME RetrievalInv, RowsTyped, RetrievalNext \/ UNCHANGED retrievalVars
  PROVE  RowsTyped'
<1>1. ASSUME NEW p \in Books, NEW many \in 1 .. 2, NEW encoded \in BOOLEAN, Ingest(p, many, encoded) PROVE RowsTyped'
  <2> DEFINE d == Upserted(p)
  <2>1. /\ clock < MaxIngests /\ d <= MaxDoc /\ NewRows(p, many) \subseteq ChunkNumbers
        /\ clock' = clock + 1 /\ stamped' = [stamped EXCEPT ![d] = clock + 1] /\ rows' = ChunksOf(p, d, many)
    BY <1>1 DEF Ingest
  <2>2. d \in Docs
    BY <2>1, NumberGiven
  <2> HIDE DEF d
  <2>3. many \in Nat /\ MaxIngests \in Nat
    BY RetrievalAssumption
  <2>4. rows' \in [ChunkNumbers -> [doc : 0 .. MaxDoc, ord : 0 .. MaxChunk]]
    BY <2>1, <2>2, <2>3, ReplacedTyped
  <2>5. clock' \in 0 .. MaxIngests /\ stamped' \in [Docs -> 0 .. MaxIngests]
    BY <2>1, <2>2, <2>3 DEF RowsTyped
  <2> QED BY <2>4, <2>5 DEF RowsTyped
<1>2. ASSUME NEW d \in Docs, Delete(d) PROVE RowsTyped'
  <2>1. rows' = ChunksOf(shelf[d], d, 0) /\ stamped' = [stamped EXCEPT ![d] = 0] /\ clock' = clock
    BY <1>2 DEF Delete
  <2>2. rows' \in [ChunkNumbers -> [doc : 0 .. MaxDoc, ord : 0 .. MaxChunk]]
    <3> PICK p : p = shelf[d]
      OBVIOUS
    <3>1. rows' = ChunksOf(p, d, 0) /\ 0 \in Nat
      BY <2>1
    <3> QED BY <3>1, ReplacedTyped
  <2>3. 0 \in 0 .. MaxIngests
    BY RetrievalAssumption
  <2> QED BY <2>1, <2>2, <2>3 DEF RowsTyped
<1>3. CASE \/ \E mode \in {"lexical", "dense", "hybrid"}, k \in 1 .. MaxTop : Search(mode, k)
           \/ \E r \in 1 .. MaxTop : Keep(r)
           \/ Forget \/ Expand \/ PageOfHit \/ (\E p \in Books : PageByName(p)) \/ UNCHANGED retrievalVars
  <2>1. UNCHANGED <<stamped, rows, clock>>
    BY <1>3 DEF Search, Keep, Forget, Expand, PageOfHit, PageByName, retrievalVars
  <2> QED BY <2>1 DEF RowsTyped
<1> QED BY <1>1, <1>2, <1>3 DEF RetrievalNext

(* What a reader is shown are books, or nothing.                           *)
LEMMA HitsStayTyped ==
  ASSUME RetrievalInv, RowsTyped, HitsTyped, RetrievalNext \/ UNCHANGED retrievalVars
  PROVE  HitsTyped'
<1> USE DEF HitsTyped
<1>1. ASSUME NEW mode \in {"lexical", "dense", "hybrid"}, NEW k \in 1 .. MaxTop, Search(mode, k) PROVE HitsTyped'
  <2>1. UNCHANGED <<hit, shown>>
    BY <1>1 DEF Search
  <2>2. answer'.mode = mode
    BY <1>1 DEF Search
  <2> QED BY <2>1, <2>2
<1>2. ASSUME NEW r \in 1 .. MaxTop, Keep(r) PROVE HitsTyped'
  <2> DEFINE i == answer.hits[r]
  <2>1. /\ r \in DOMAIN answer.hits
        /\ hit' = [row |-> i, doc |-> rows[i].doc, path |-> PathAt(i), kept |-> TRUE]
        /\ answer' = NoAnswer /\ UNCHANGED shown
    BY <1>2 DEF Keep
  <2>2. i \in Chunks
    BY <2>1 DEF RetrievalInv
  <2> HIDE DEF i
  <2>3. i \in 0 .. MaxChunk /\ rows[i].doc \in Indexed /\ rows[i].doc \in 0 .. MaxDoc
    <3>1. i \in ChunkNumbers /\ rows[i].doc \in Indexed
      BY <2>2 DEF RetrievalInv, Chunks
    <3>2. rows[i] \in [doc : 0 .. MaxDoc, ord : 0 .. MaxChunk]
      BY <3>1 DEF RowsTyped
    <3>3. i \in 0 .. MaxChunk
      BY <3>1, RetrievalAssumption DEF ChunkNumbers
    <3> QED BY <3>1, <3>2, <3>3
  <2>4. PathAt(i) \in Books \cup {None}
    BY <2>3 DEF RetrievalInv, PathAt, Indexed
  <2> QED BY <2>1, <2>3, <2>4 DEF NoAnswer, Hits
<1>3. ASSUME NEW d \in Docs, Delete(d) PROVE HitsTyped'
  <2>1. hit' \in {hit, [hit EXCEPT !.kept = FALSE]} /\ UNCHANGED <<answer, shown>>
    BY <1>3 DEF Delete
  <2> QED BY <2>1 DEF Hits
<1>4. NoHit \in Hits /\ NoAnswer.mode = "none"
  BY RetrievalAssumption DEF NoHit, Hits, NoAnswer
<1>5. CASE Forget \/ UNCHANGED retrievalVars \/ \E p \in Books, many \in 1 .. 2, encoded \in BOOLEAN : Ingest(p, many, encoded)
  <2>1. UNCHANGED <<hit, shown>> /\ answer' \in {answer, NoAnswer}
    BY <1>5 DEF Forget, Ingest, retrievalVars
  <2> QED BY <1>4, <2>1
<1>6. CASE Expand
  <2>1. shown' = <<hit.path, Text(hit)>> /\ hit' = NoHit /\ answer' = answer
    BY <1>6 DEF Expand
  <2>2. Text(hit) \in Books \cup {None} /\ hit.path \in Books \cup {None}
    BY DEF Text, PathAt, RetrievalInv, Hits, Indexed
  <2> QED BY <1>4, <2>1, <2>2
<1>7. CASE PageOfHit
  <2>1. shown' = <<hit.path, shelf[hit.doc]>> /\ hit' = NoHit /\ answer' = answer /\ hit.doc \in Indexed
    BY <1>7 DEF PageOfHit
  <2>2. shelf[hit.doc] \in Books \cup {None} /\ hit.path \in Books \cup {None}
    BY <2>1 DEF RetrievalInv, Hits, Indexed
  <2> QED BY <1>4, <2>1, <2>2
<1>8. ASSUME NEW p \in Books, PageByName(p) PROVE HitsTyped'
  <2>1. PICK d \in Resolved(NameOf[p]) : shown' = <<p, shelf[d]>> /\ UNCHANGED <<hit, answer>>
    BY <1>8 DEF PageByName
  <2>2. shelf[d] \in Books \cup {None}
    BY DEF Resolved, RetrievalInv, Indexed
  <2> QED BY <2>1, <2>2
<1> QED BY <1>1, <1>2, <1>3, <1>5, <1>6, <1>7, <1>8 DEF RetrievalNext

(* With the invariant of the search these are its types.                   *)
LEMMA RetrievalTyped ==
  /\ RetrievalInit => RowsTyped /\ HitsTyped
  /\ RetrievalInv /\ RowsTyped /\ HitsTyped => RetrievalTypeOK
<1>1. RetrievalInit => RowsTyped /\ HitsTyped
  BY RetrievalAssumption DEF RetrievalInit, RowsTyped, HitsTyped, NoRow, NoAnswer, NoHit, Hits
<1>2. ASSUME RetrievalInv, RowsTyped, HitsTyped PROVE RetrievalTypeOK
  <2>1. \A i \in ChunkNumbers : rows[i] # NoRow => shelf[rows[i].doc] # None
    BY <1>2 DEF RetrievalInv, Chunks, Indexed
  <2>2. answer.hits \in Seq(ChunkNumbers)
    BY <1>2 DEF RetrievalInv, Chunks
  <2> QED BY <1>2, <2>1, <2>2 DEF RetrievalInv, RowsTyped, HitsTyped, Hits, RetrievalTypeOK
<1> QED BY <1>1, <1>2

-----------------------------------------------------------------------------
(* The types of the models.                                                *)

FetchSteps == Holding \cup {"idle", "wait", "queue", "ready", "refused"}

FetchTypes ==
    /\ bundle \in States /\ inner \in [Archived -> States] /\ files \in [Archived -> States]
    /\ doing \in [Fetchers -> FetchSteps] /\ rest \in [Fetchers -> Seq(1 .. ModelSize)]

RunTypes == loaded \subseteq Fetchers /\ breaks \in 0 .. MaxBreaks

(* Whatever breaks, the files are none, cut or whole, and a response       *)
(* brings pieces of the model.                                             *)
LEMMA FetchStaysTyped ==
  ASSUME ModelsInv, FetchTypes, ModelsNext \/ UNCHANGED modelVars
  PROVE  FetchTypes'
<1>0. ModelSize \in Nat
  BY ModelsAssumption
<1>1. ASSUME NEW p \in Fetchers, NEW s \in FetchSteps, Goes(p, s) PROVE doing' \in [Fetchers -> FetchSteps]
  BY <1>1 DEF Goes, FetchTypes
<1>2. CASE UNCHANGED modelVars
  BY <1>2 DEF modelVars, whisper, parakeet, FetchTypes
<1>3. ASSUME NEW p \in Fetchers, Want(p) \/ WantFiles(p) \/ LoadModel(p) \/ Refuse416(p) \/ LockDownload(p)
      PROVE  FetchTypes'
  <2>1. UNCHANGED <<rest, parakeet>> /\ \E s \in FetchSteps : Goes(p, s)
    BY <1>3 DEF Want, WantFiles, LoadModel, Refuse416, LockDownload, whisper, FetchSteps, Holding
  <2> QED BY <1>1, <2>1 DEF FetchTypes, parakeet
<1>4. ASSUME NEW p \in Fetchers, NEW ranges \in BOOLEAN, Request(p, ranges) PROVE FetchTypes'
  <2>1. UNCHANGED parakeet /\ \E s \in {"copy", "refused"} : Goes(p, s)
    BY <1>4 DEF Request
  <2>2. \E s \in FetchSteps : Goes(p, s)
    BY <2>1 DEF FetchSteps, Holding
  <2>3. Model \in Seq(1 .. ModelSize) /\ Len(Model) = ModelSize
    BY <1>0, FunctionIsSeq DEF Model
  <2>4. Len(part) \in Nat
    BY DEF ModelsInv, Counts
  <2>5. rest' \in [Fetchers -> Seq(1 .. ModelSize)]
    <3>1. CASE rest' = rest
      BY <3>1 DEF FetchTypes
    <3>2. CASE rest' = [rest EXCEPT ![p] = Model]
      BY <2>3, <3>2 DEF FetchTypes
    <3>3. CASE ~(Len(part) >= ModelSize) /\ rest' = [rest EXCEPT ![p] = SubSeq(Model, Len(part) + 1, ModelSize)]
      <4> DEFINE t == SubSeq(Model, Len(part) + 1, ModelSize)
      <4>1. t \in Seq(1 .. ModelSize)
        BY <1>0, <2>3, <2>4, <3>3
      <4> HIDE DEF t
      <4> QED BY <3>3, <4>1 DEF FetchTypes, t
    <3> QED BY <1>4, <3>1, <3>2, <3>3 DEF Request, whisper
  <2> QED BY <1>1, <2>1, <2>2, <2>5 DEF FetchTypes, parakeet
<1>5. ASSUME NEW p \in Fetchers, CopyPiece(p) PROVE FetchTypes'
  <2>1. UNCHANGED parakeet /\ \E s \in FetchSteps : Goes(p, s)
    BY <1>5 DEF CopyPiece, FetchSteps, Holding
  <2>2. rest' = [rest EXCEPT ![p] = Tail(rest[p])] /\ rest[p] # <<>>
    BY <1>5 DEF CopyPiece
  <2>3. rest[p] \in Seq(1 .. ModelSize)
    BY DEF FetchTypes
  <2>4. Tail(rest[p]) \in Seq(1 .. ModelSize)
    <3> DEFINE T == 1 .. ModelSize
    <3>1. PICK q \in Seq(T) : q = rest[p]
      BY <2>3
    <3> HIDE DEF T
    <3>2. q # <<>>
      BY <2>2, <3>1
    <3>3. Tail(q) \in Seq(T)
      BY <3>2
    <3> QED BY <3>1, <3>3 DEF T
  <2> QED BY <1>1, <2>1, <2>2, <2>4 DEF FetchTypes, parakeet
<1>6. ASSUME NEW p \in Fetchers, Place(p) PROVE FetchTypes'
  <2>1. UNCHANGED parakeet /\ UNCHANGED rest /\ \E s \in FetchSteps : Goes(p, s)
    BY <1>6 DEF Place, FetchSteps, Holding, whisper
  <2> QED BY <1>1, <2>1 DEF FetchTypes, parakeet
<1>7. ASSUME NEW p \in Fetchers, LockArchive(p) \/ FetchArchive(p) \/ Unpacked(p) \/ Lifted(p) PROVE FetchTypes'
  <2>1. /\ UNCHANGED <<rest, files>> /\ bundle' \in States \cup {bundle}
        /\ inner' = inner \/ inner' = [f \in Archived |-> "none"]
    BY <1>7 DEF LockArchive, FetchArchive, Unpacked, Lifted, whisper, States
  <2>2. \E s \in FetchSteps : Goes(p, s)
    BY <1>7 DEF LockArchive, FetchArchive, Unpacked, Lifted, FetchSteps, Holding
  <2>3. inner' \in [Archived -> States]
    BY <2>1 DEF FetchTypes, States
  <2> QED BY <1>1, <2>1, <2>2, <2>3 DEF FetchTypes
<1>8. ASSUME NEW p \in Fetchers, NEW f \in Archived, Unpack(p, f) \/ UnpackRest(p, f) \/ Lift(p, f) PROVE FetchTypes'
  <2>1. UNCHANGED <<rest, bundle, doing>>
    BY <1>8 DEF Unpack, UnpackRest, Lift, whisper
  <2>2. inner' \in [Archived -> States] /\ files' \in [Archived -> States]
    BY <1>8 DEF Unpack, UnpackRest, Lift, UnpackInto, FetchTypes, States
  <2> QED BY <2>1, <2>2 DEF FetchTypes
<1>9. ASSUME NEW p \in Fetchers, Break(p) PROVE FetchTypes'
  <2>1. UNCHANGED parakeet /\ \E s \in FetchSteps : Goes(p, s)
    BY <1>9 DEF Break, FetchSteps
  <2>2. rest' = [rest EXCEPT ![p] = <<>>] /\ <<>> \in Seq(1 .. ModelSize)
    BY <1>9 DEF Break
  <2> QED BY <1>1, <2>1, <2>2 DEF FetchTypes, parakeet
<1> QED BY <1>2, <1>3, <1>4, <1>5, <1>6, <1>7, <1>8, <1>9 DEF ModelsNext

(* The connections that break stay within their bound.                     *)
LEMMA RunStaysTyped ==
  ASSUME RunTypes, ModelsNext \/ UNCHANGED modelVars
  PROVE  RunTypes'
<1>1. CASE UNCHANGED <<loaded, breaks>>
  BY <1>1 DEF RunTypes
<1>2. ASSUME NEW p \in Fetchers, LoadModel(p) PROVE RunTypes'
  BY <1>2 DEF LoadModel, RunTypes
<1>3. ASSUME NEW p \in Fetchers, Break(p) PROVE RunTypes'
  BY <1>3, ModelsAssumption DEF Break, RunTypes
<1>4. ASSUME NEW p \in Fetchers,
             \/ Want(p) \/ LockDownload(p) \/ \E ranges \in BOOLEAN : Request(p, ranges)
             \/ CopyPiece(p) \/ Place(p)
             \/ WantFiles(p) \/ LockArchive(p) \/ FetchArchive(p) \/ Unpacked(p) \/ Lifted(p)
             \/ \E f \in Archived : Unpack(p, f) \/ UnpackRest(p, f) \/ Lift(p, f)
             \/ Refuse416(p)
      PROVE  UNCHANGED <<loaded, breaks>>
  BY <1>4 DEF Want, LockDownload, Request, CopyPiece, Place, WantFiles, LockArchive, FetchArchive, Unpacked, Lifted,
          Unpack, UnpackRest, Lift, Refuse416
<1> QED BY <1>1, <1>2, <1>3, <1>4 DEF ModelsNext, modelVars

(* With the invariant of the downloads these are the models' types.        *)
LEMMA ModelsTyped ==
  /\ ModelsInit => FetchTypes /\ RunTypes
  /\ ModelsInv /\ FetchTypes /\ RunTypes => ModelsTypeOK
<1>1. ASSUME ModelsInit PROVE FetchTypes /\ RunTypes
  <2>1. bundle \in States /\ inner \in [Archived -> States] /\ files \in [Archived -> States]
    BY <1>1 DEF ModelsInit, States
  <2>2. doing \in [Fetchers -> FetchSteps]
    BY <1>1 DEF ModelsInit, FetchSteps
  <2>3. rest \in [Fetchers -> Seq(1 .. ModelSize)]
    BY <1>1 DEF ModelsInit
  <2>4. RunTypes
    BY <1>1, ModelsAssumption DEF ModelsInit, RunTypes
  <2> QED BY <2>1, <2>2, <2>3, <2>4 DEF FetchTypes
<1>2. ASSUME ModelsInv, FetchTypes, RunTypes PROVE ModelsTypeOK
  <2>0. ModelSize \in Nat
    BY ModelsAssumption
  <2>1. part \in Seq(Nat) /\ Len(part) <= 2 * ModelSize
    BY <1>2, <2>0 DEF ModelsInv, Counts
  <2>2. bin \in Seq(Nat) /\ Len(bin) <= 2 * ModelSize
    <3>1. CASE bin = <<>>
      BY <2>0, <3>1
    <3>2. CASE bin = Model
      BY <2>0, <3>2, ModelCounted DEF Counts
    <3> QED BY <1>2, <3>1, <3>2 DEF ModelsInv, ModelsSafe
  <2> QED BY <1>2, <2>1, <2>2 DEF FetchTypes, RunTypes, FetchSteps, ModelsTypeOK
<1> QED BY <1>1, <1>2

-----------------------------------------------------------------------------
(* The types of the databases.                                             *)

(* An index of version 1 is left as it is.                                 *)
FirstFits == version = 1 => index = V1

ChatTypes ==
    /\ chat \subseteq Everything
    /\ chosen \subseteq Terminals /\ memory \subseteq Terminals \cup {""}

OpenerTypes ==
    /\ opener \in [Openers -> {"out", "index", "chat", "open", "naming", "noIndex", "noChat"}]
    /\ kills \in 0 .. MaxKills

(* Nobody migrates an index of version 1.                                  *)
LEMMA FirstStaysFit ==
  ASSUME IndexInv, FirstFits, SchemaNext \/ UNCHANGED schemaVars
  PROVE  FirstFits'
<1>1. CASE UNCHANGED <<version, index>>
  BY <1>1 DEF FirstFits
<1>2. ASSUME NEW o \in Openers, OpenIndex(o) PROVE FirstFits'
  BY <1>2 DEF OpenIndex, FirstFits
<1>3. ASSUME NEW o \in Openers, IndexStep(o) PROVE FirstFits'
  <2>1. script[o] # <<>> /\ ScriptFits(o)
    BY <1>3 DEF IndexStep, IndexInv
  <2>2. version # 1
    BY <2>1 DEF ScriptFits, Current
  <2>3. version' \in {version, Current}
    BY <1>3 DEF IndexStep
  <2> QED BY <2>2, <2>3 DEF FirstFits, Current
<1>4. ASSUME NEW o \in Openers, ValidateIndex(o) PROVE FirstFits'
  <2>1. script[o] = <<>> /\ ScriptFits(o)
    BY <1>4 DEF ValidateIndex, IndexInv
  <2>2. \A k \in 1 .. 7 : FreshFrom(k) # <<>>
    BY DEF FreshFrom, Fresh
  <2>3. OfTwo # <<>> /\ OfThree # <<>> /\ <<Converge>> # <<>>
    BY DEF OfTwo, OfThree
  <2>4. version # 0
    BY <2>1, <2>2, <2>3 DEF ScriptFits
  <2>5. UNCHANGED <<version, index>>
    BY <1>4, <2>4 DEF ValidateIndex
  <2> QED BY <2>5 DEF FirstFits
<1>5. ASSUME NEW o \in Openers,
             \/ OpenChat(o) \/ Idempotent(o) \/ Probe(o) \/ AddColumn(o) \/ Widen(o) \/ ChatIsOpen(o)
             \/ \E t \in Terminals : Choose(o, t)
             \/ ChooseForDirectory(o) \/ Close(o) \/ Kill(o)
      PROVE  UNCHANGED <<version, index>>
  BY <1>5 DEF OpenChat, Idempotent, Probe, AddColumn, Widen, ChatIsOpen, Choose, ChooseForDirectory, Close, Kill
<1> QED BY <1>1, <1>2, <1>3, <1>4, <1>5 DEF SchemaNext, schemaVars

(* What an opener adds to chat.db is one of its columns or tables.         *)
LEMMA ChatStaysTyped ==
  ASSUME SchemaInv, ChatTypes, SchemaNext \/ UNCHANGED schemaVars
  PROVE  ChatTypes'
<1>1. CASE UNCHANGED <<chat, chosen, memory>>
  BY <1>1 DEF ChatTypes
<1>2. ASSUME NEW o \in Openers, Idempotent(o) PROVE ChatTypes'
  BY <1>2 DEF Idempotent, ChatTypes, Everything
<1>3. ASSUME NEW o \in Openers, AddColumn(o) PROVE ChatTypes'
  <2>1. probed[o] \subseteq Everything
    BY <1>3 DEF SchemaInv, ChatInv, ProbedFits, Everything
  <2> QED BY <1>3, <2>1 DEF AddColumn, ChatTypes
<1>4. ASSUME NEW o \in Openers, Widen(o) PROVE ChatTypes'
  BY <1>4 DEF Widen, ChatTypes, Everything
<1>5. ASSUME NEW o \in Openers, (\E t \in Terminals : Choose(o, t)) \/ ChooseForDirectory(o) PROVE ChatTypes'
  BY <1>5 DEF Choose, ChooseForDirectory, ChatTypes
<1>6. ASSUME NEW o \in Openers,
             \/ OpenIndex(o) \/ IndexStep(o) \/ ValidateIndex(o)
             \/ OpenChat(o) \/ Probe(o) \/ ChatIsOpen(o) \/ Close(o) \/ Kill(o)
      PROVE  UNCHANGED <<chat, chosen, memory>>
  BY <1>6 DEF OpenIndex, IndexStep, ValidateIndex, OpenChat, Probe, ChatIsOpen, Close, Kill
<1> QED BY <1>1, <1>2, <1>3, <1>4, <1>5, <1>6 DEF SchemaNext, schemaVars

(* Openers are where the program has them.                                 *)
LEMMA OpenersStayTyped ==
  ASSUME OpenerTypes, SchemaNext \/ UNCHANGED schemaVars
  PROVE  OpenerTypes'
<1> DEFINE Stations == {"out", "index", "chat", "open", "naming", "noIndex", "noChat"}
<1>1. ASSUME NEW o \in Openers, opener' \in {[opener EXCEPT ![o] = s] : s \in Stations} \cup {opener}, kills' = kills
      PROVE  OpenerTypes'
  BY <1>1 DEF OpenerTypes
<1>2. CASE UNCHANGED <<opener, kills>>
  BY <1>2 DEF OpenerTypes
<1>3. ASSUME NEW o \in Openers,
             \/ OpenIndex(o) \/ IndexStep(o) \/ ValidateIndex(o)
             \/ OpenChat(o) \/ Idempotent(o) \/ Probe(o) \/ AddColumn(o) \/ Widen(o) \/ ChatIsOpen(o)
             \/ \E t \in Terminals : Choose(o, t)
             \/ ChooseForDirectory(o) \/ Close(o)
      PROVE  opener' \in {[opener EXCEPT ![o] = s] : s \in Stations} \cup {opener} /\ kills' = kills
  BY <1>3 DEF OpenIndex, IndexStep, ValidateIndex, OpenChat, Idempotent, Probe, AddColumn, Widen, ChatIsOpen, Choose,
          ChooseForDirectory, Close
<1>4. ASSUME NEW o \in Openers, Kill(o) PROVE OpenerTypes'
  <2>1. opener' = [opener EXCEPT ![o] = "out"] /\ kills' = kills + 1 /\ kills < MaxKills
    BY <1>4 DEF Kill
  <2>2. kills' \in 0 .. MaxKills
    BY <2>1, SchemaAssumption DEF OpenerTypes
  <2> QED BY <2>1, <2>2 DEF OpenerTypes
<1> QED BY <1>1, <1>2, <1>3, <1>4 DEF SchemaNext, schemaVars

(* With the invariants of the two databases these are their types.         *)
LEMMA SchemaTyped ==
  /\ SchemaInit => FirstFits /\ ChatTypes /\ OpenerTypes
  /\ SchemaInv /\ FirstFits /\ ChatTypes /\ OpenerTypes => SchemaTypeOK
<1>1. ASSUME SchemaInit PROVE FirstFits /\ ChatTypes /\ OpenerTypes
  <2>1. FirstFits
    <3>1. Left[1] = V1
      BY DEF Left, Current
    <3>2. version = 1 => index = Left[1]
      BY <1>1 DEF SchemaInit
    <3> QED BY <3>1, <3>2 DEF FirstFits
  <2>2. ChatTypes
    BY <1>1 DEF SchemaInit, ChatTypes, Everything, Tables, Whole, Columns
  <2>3. opener \in [Openers -> {"out", "index", "chat", "open", "naming", "noIndex", "noChat"}]
    BY <1>1 DEF SchemaInit
  <2>4. kills \in 0 .. MaxKills
    <3>1. kills = 0
      BY <1>1 DEF SchemaInit
    <3>2. MaxKills \in Nat
      BY SchemaAssumption
    <3> QED BY <3>1, <3>2
  <2> QED BY <2>1, <2>2, <2>3, <2>4 DEF OpenerTypes
<1>2. ASSUME SchemaInv, FirstFits, ChatTypes, OpenerTypes PROVE SchemaTypeOK
  <2>1. version \in 0 .. Current
    BY <1>2 DEF SchemaInv, IndexInv, IndexFits
  <2>2. index \subseteq V6 \cup Insights \cup {"page_num"}
    <3>1. V1 \subseteq V6
      BY DEF V6
    <3>2. Left[2] \subseteq V6 /\ Left[3] \subseteq V6 \cup {"page_num"}
      BY DEF Left, V6, Current
    <3>3. \/ version = 0 \/ version = 1 \/ version = 2 \/ version = 3 \/ version \in {4, 5} \/ version = Current
      BY <2>1 DEF Current
    <3>4. IndexFits
      BY <1>2 DEF SchemaInv, IndexInv
    <3>5. CASE version = 0
      BY <3>4, <3>5 DEF IndexFits
    <3>6. CASE version = 1
      BY <1>2, <3>1, <3>6 DEF FirstFits
    <3>7. CASE version = 2
      BY <3>2, <3>4, <3>7 DEF IndexFits
    <3>8. CASE version = 3
      BY <3>2, <3>4, <3>8 DEF IndexFits
    <3>9. CASE version \in {4, 5}
      BY <3>4, <3>9 DEF IndexFits
    <3>10. CASE version = Current
      BY <3>4, <3>10 DEF IndexFits, VersionTells
    <3> QED BY <3>3, <3>5, <3>6, <3>7, <3>8, <3>9, <3>10
  <2>3. ASSUME NEW o \in Openers PROVE probed[o] \subseteq Columns \cup {"terminal"} /\ Cardinality(probed[o]) <= 1
    <3>1. CASE probed[o] = {}
      BY <3>1, FS_EmptySet
    <3>2. CASE probed[o] # {}
      <4>1. probed[o] = {Head(script[o])} /\ Head(script[o]) \in Columns \cup {"terminal"}
        BY <1>2, <3>2 DEF SchemaInv, ChatInv, ProbedFits
      <4>2. Cardinality({Head(script[o])}) = 1
        BY FS_Singleton
      <4> QED BY <4>1, <4>2
    <3> QED BY <3>1, <3>2
  <2> QED BY <1>2, <2>1, <2>2, <2>3 DEF ChatTypes, OpenerTypes, SchemaTypeOK
<1> QED BY <1>1, <1>2

-----------------------------------------------------------------------------
(* The parts together.                                                     *)
MapsFit == MapsInv /\ TreeInv /\ ArriveInv
FoundInv == LibraryInv /\ ModelsInv /\ SchemaInv /\ MapsFit

LEMMA MapsFitFirst == StoresInit => MapsFit
<1> SUFFICES ASSUME MapsInit PROVE MapsFit
  BY DEF StoresInit
<1>1. ArriveInv
  BY DEF MapsInit, ArriveInv
<1> QED BY <1>1, MapsInitInv, TreeInitInv DEF MapsFit

LEMMA FoundInitInv == StoresInit => FoundInv
BY LibraryInitInv, ModelsInitInv, SchemaInitInv, MapsFitFirst DEF StoresInit, FoundInv

(* Whoever's turn it is, each of the parts takes a step or rests.    *)
LEMMA PartSteps ==
  ASSUME [StoresNext]_storesVars
  PROVE  /\ FilesNext \/ UNCHANGED filesVars
         /\ ArchiveNext \/ UNCHANGED archiveVars
         /\ TransferNext \/ UNCHANGED transferVars
         /\ MapsNext \/ UNCHANGED mapVars
         /\ FlowNext \/ UNCHANGED flowVars
         /\ TreeNext \/ UNCHANGED treeVars
         /\ LibraryNext \/ UNCHANGED libraryVars
         /\ RetrievalNext \/ UNCHANGED retrievalVars
         /\ ModelsNext \/ UNCHANGED modelVars
         /\ SchemaNext \/ UNCHANGED schemaVars
BY DEF StoresNext, storesVars, FilesTurn, ArchiveTurn, TransferTurn, LibraryTurn, RetrievalTurn,
       MapsTurn, FlowTurn, TreeTurn, ModelsTurn, SchemaTurn

LEMMA MapsFitStep == MapsFit /\ [StoresNext]_storesVars => MapsFit'
BY PartSteps, MapsKeep, TreesKeep, ArriveKeeps DEF MapsFit

LEMMA FoundStep == FoundInv /\ [StoresNext]_storesVars => FoundInv'
<1> SUFFICES ASSUME FoundInv, [StoresNext]_storesVars PROVE FoundInv'
  OBVIOUS
<1>1. LibraryInv'
  BY PartSteps, LibraryKeeps DEF FoundInv
<1>2. ModelsInv'
  BY PartSteps, ModelsKeeps DEF FoundInv
<1>3. SchemaInv'
  BY PartSteps, IndexKeeps, ChatKeeps DEF FoundInv, SchemaInv
<1> QED BY <1>1, <1>2, <1>3, MapsFitStep DEF FoundInv

(* A document that is taken for indexed is, whoever edited or ingested it  *)
(* meanwhile; a database that says it is at its version is, an opener that *)
(* is alone gets through, and one that got through finds everything there; *)
(* a model that is in its place is whole; a mind map is a tree, and one    *)
(* that was packed arrives as one.                                         *)
THEOREM FoundIsFit == StoresSpec => []FoundFit
<1>1. FoundInv => FoundFit
  <2> SUFFICES ASSUME FoundInv PROVE FoundFit
    OBVIOUS
  <2>1. UnchangedIsIndexed /\ ModelsSafe /\ VersionTells
    BY DEF FoundInv, LibraryInv, ModelsInv, SchemaInv, IndexInv, IndexFits
  <2>2. ChatOpensAlone
    BY DEF FoundInv, SchemaInv, ChatInv, AloneFits, ChatOpensAlone
  <2>3. OpenedFindsAll
    BY DEF FoundInv, SchemaInv, ChatInv, ToDoFits, ToDo, OpenedFindsAll
  <2>4. MapsWhole /\ ArrivesWhole
    BY TreesStand, MapsArrive DEF FoundInv, MapsFit, MapsWhole, MapsInv
  <2> QED BY <2>1, <2>2, <2>3, <2>4 DEF FoundFit, SchemaSafe
<1> QED BY <1>1, FoundInitInv, FoundStep, PTL DEF StoresSpec

CopiesInv == FilesInv /\ TransferInv

(* What is copied arrives as it was, where the operator shares with none   *)
(* that shares: a folder whose share or unshare is done reads what it read *)
(* when the command began, whoever wrote, adopted or died meanwhile; and a *)
(* conversation copied under an id of its own is listed with its folders,  *)
(* wherever the command failed or was killed.                              *)
THEOREM CopiesAreWhole ==
  ASSUME ~Chains
  PROVE  StoresSpec => []CopiesWhole
<1>1. StoresInit => CopiesInv
  BY FilesInitInv, TransferInitInv DEF StoresInit, CopiesInv
<1>2. CopiesInv /\ [StoresNext]_storesVars => CopiesInv'
  <2> SUFFICES ASSUME CopiesInv, [StoresNext]_storesVars PROVE CopiesInv'
    OBVIOUS
  <2>1. FilesInv'
    BY PartSteps, FilesKeeps DEF CopiesInv
  <2>2. TransferInv'
    BY PartSteps, TransferKeeps DEF CopiesInv
  <2> QED BY <2>1, <2>2 DEF CopiesInv
<1>3. CopiesInv => CopiesWhole
  BY FilesKeepEntries, CopiesAreComplete DEF CopiesInv, CopiesWhole
<1> QED BY <1>1, <1>2, <1>3, PTL DEF StoresSpec

LEMMA OldInsightsAreThere == InsightsInv => InsightsOnce
<1> SUFFICES ASSUME InsightsInv, NEW t \in ToSet(OldInsights), marked, deletes = 0
             PROVE  t \in {here[i].text : i \in Held(here)}
  BY DEF InsightsOnce, InsightsInv, OldOnce
<1>1. PICK m \in 1 .. Len(OldInsights) : t = OldInsights[m]
  BY ArchiveAssumption DEF ToSet
<1> QED BY <1>1 DEF InsightsInv, MarkedAreThere, TextsHere

LEMMA DeletesCount ==
  ASSUME InsightsInv, ArchiveNext \/ UNCHANGED archiveVars, deletes' = 0
  PROVE  deletes = 0
<1>1. ASSUME NEW i \in EntryIds, DropEntry(i) PROVE FALSE
  BY <1>1 DEF DropEntry, InsightsInv
<1> QED BY <1>1 DEF ArchiveNext, archiveVars, Tick, Write, CloseEntry, CopyInsight, MarkImported, OpenerDies,
        StartDump, ReadPage, StartLoading, LoadEntry, LoadLinks, LoadDies

(* An insight of the older release is in the journal once, however many    *)
(* open it and however often they die, and once it says they were          *)
(* imported, all of them are, unless an entry was deleted.                 *)
THEOREM InsightsComeOnce == StoresSpec => []InsightsOnce
<1>1. StoresInit => InsightsInv
  BY InsightsInitInv DEF StoresInit
<1>2. InsightsInv /\ [StoresNext]_storesVars => InsightsInv'
  BY PartSteps, InsightsKeep
<1> QED BY <1>1, <1>2, OldInsightsAreThere, PTL DEF StoresSpec

KeptInv == InsightsInv /\ RetrievalInv /\ (deletes = 0 => Apart(here) /\ DumpInv /\ LoadInv)

(* What is kept is found again.  A chunk has its number as long as it is   *)
(* there and no other has it, whatever was ingested again or deleted, and  *)
(* of two chunks the one that both rankings put first is the first of the  *)
(* answer.  And of a journal from which nothing is deleted, every entry    *)
(* that was there when it was packed is in the archive, whatever was       *)
(* written meanwhile and whoever died, and an archive in order that was    *)
(* loaded once is there again, entry by entry with its state and links.    *)
THEOREM KeptIsKept == StoresSpec => [](RetrievalSafe /\ (deletes = 0 => KeptIsFound))
<1>1. StoresInit => KeptInv
  BY InsightsInitInv, RetrievalInitInv, KeptInitInv DEF StoresInit, KeptInv
<1>2. KeptInv /\ [StoresNext]_storesVars => KeptInv'
  <2> SUFFICES ASSUME KeptInv, [StoresNext]_storesVars PROVE KeptInv'
    OBVIOUS
  <2>1. InsightsInv'
    BY PartSteps, InsightsKeep DEF KeptInv
  <2>2. RetrievalInv'
    BY PartSteps, RetrievalKeeps DEF KeptInv
  <2>3. ASSUME deletes' = 0 PROVE Apart(here)' /\ DumpInv' /\ LoadInv'
    <3>1. deletes = 0
      BY <2>3, PartSteps, DeletesCount DEF KeptInv
    <3> QED BY <2>3, <3>1, PartSteps, JournalGrows, DumpKeeps, LoadStays DEF KeptInv
  <2> QED BY <2>1, <2>2, <2>3 DEF KeptInv
<1>3. KeptInv => RetrievalSafe /\ (deletes = 0 => KeptIsFound)
  <2> SUFFICES ASSUME KeptInv PROVE RetrievalSafe /\ (deletes = 0 => KeptIsFound)
    OBVIOUS
  <2>1. RetrievalSafe /\ InsightsOnce
    BY OldInsightsAreThere DEF KeptInv, RetrievalInv
  <2>2. ASSUME deletes = 0 PROVE DumpWhole /\ LoadKeeps
    BY <2>2, DumpIsWhole DEF KeptInv, LoadInv
  <2> QED BY <2>1, <2>2 DEF KeptIsFound, ArchiveSafe
<1> QED BY <1>1, <1>2, <1>3, PTL DEF StoresSpec

(* A mind map is a tree whatever is added, moved and deleted in any order: *)
(* it has one root, every node of it hangs on the root through nodes of    *)
(* the map, its arrows join two of them, and a reference hangs on a node   *)
(* and names an entry.  And one that is packed arrives with all its nodes, *)
(* each under the copy of the one it hung under, and all its arrows.       *)
THEOREM MapsStayTrees == StoresSpec => [](MapsWhole /\ ArrivesWhole)
<1>1. MapsFit => MapsWhole /\ ArrivesWhole
  BY TreesStand, MapsArrive DEF MapsFit, MapsWhole, MapsInv
<1> QED BY <1>1, MapsFitFirst, MapsFitStep, PTL DEF StoresSpec

-----------------------------------------------------------------------------
DrawInv == FlowInv /\ TextInv /\ PlacesInv

(* What is drawn of a mind map can be read.  Every symbol of a flowchart   *)
(* gets a layer, whatever cycles its arrows form, and those drawn as loops *)
(* are the ones found to close one; no slot of a layer touches another,    *)
(* loops have lanes of their own and the answers of a decision leave it    *)
(* apart.  The boxes of a tree do not touch, no line of text is too wide   *)
(* and none is lost unsaid.                                                *)
THEOREM DrawingsStayApart == StoresSpec => []DrawingsApart
<1>1. StoresInit => DrawInv
  BY FlowStarts, TextInitInv, PlacesStart DEF StoresInit, DrawInv
<1>2. DrawInv /\ [StoresNext]_storesVars => DrawInv'
  <2> SUFFICES ASSUME DrawInv, [StoresNext]_storesVars PROVE DrawInv'
    OBVIOUS
  <2>1. [FlowNext]_flowVars /\ [TreeNext]_treeVars
    BY PartSteps
  <2>2. FlowInv'
    BY <2>1, FlowKeeps DEF DrawInv
  <2>3. TextInv' /\ PlacesInv'
    BY <2>1, TextKeeps, PlacesKeep DEF DrawInv
  <2> QED BY <2>2, <2>3 DEF DrawInv
<1>3. DrawInv => DrawingsApart
  BY FlowSays, PlacesTell DEF DrawInv, TextInv, TreeDrawn, DrawingsApart
<1> QED BY <1>1, <1>2, <1>3, PTL DEF StoresSpec

-----------------------------------------------------------------------------
(* All that the types need.                                                *)
FilesTyping == FilesFit
ArchiveTyping == InsightsInv /\ PackTypes /\ UnpackTypes /\ CountTypes
TransferTyping == TransferInv /\ CarriedTypes
LibraryTyping == LibraryInv /\ DocsWhole /\ TextsRead
RetrievalTyping == RetrievalInv /\ RowsTyped /\ HitsTyped
MapsTyping == MapsFit /\ HungTypes /\ OpenTypes /\ OneArrives
DrawTyping == DrawInv /\ Unlaid /\ Unmeasured
ModelsTyping == ModelsInv /\ FetchTypes /\ RunTypes
SchemaTyping == SchemaInv /\ FirstFits /\ ChatTypes /\ OpenerTypes

StoresTyping ==
    /\ FilesTyping /\ ArchiveTyping /\ TransferTyping /\ LibraryTyping /\ RetrievalTyping
    /\ MapsTyping /\ DrawTyping /\ ModelsTyping /\ SchemaTyping

(* The types hold at first.                                                *)
LEMMA TypesFirst == StoresInit => StoresTyping
<1> SUFFICES ASSUME StoresInit PROVE StoresTyping
  OBVIOUS
<1>1. FilesTyping /\ TransferTyping
  BY FilesTyped, TransferInitInv, TransferTyped DEF StoresInit, FilesTyping, TransferTyping
<1>2. ArchiveTyping
  BY InsightsInitInv, ArchiveTyped DEF StoresInit, ArchiveTyping
<1>3. LibraryTyping /\ RetrievalTyping
  BY LibraryInitInv, LibraryTyped, RetrievalInitInv, RetrievalTyped DEF StoresInit, LibraryTyping, RetrievalTyping
<1>4. MapsTyping
  BY MapsFitFirst, MapsTyped DEF StoresInit, MapsTyping
<1>5. DrawTyping
  BY FlowStarts, TextInitInv, PlacesStart, TreeTyped, FlowTyped DEF StoresInit, DrawInv, DrawTyping
<1>6. ModelsTyping
  BY ModelsInitInv, ModelsTyped DEF StoresInit, ModelsTyping
<1>7. SchemaTyping
  BY SchemaInitInv, SchemaTyped DEF StoresInit, SchemaTyping
<1> QED BY <1>1, <1>2, <1>3, <1>4, <1>5, <1>6, <1>7 DEF StoresTyping

(* A step of any part keeps them.                                          *)
LEMMA TypesStep == StoresTyping /\ [StoresNext]_storesVars => StoresTyping'
<1> SUFFICES ASSUME StoresTyping, [StoresNext]_storesVars PROVE StoresTyping'
  OBVIOUS
<1>1. FilesTyping'
  BY PartSteps, FilesStayFit DEF StoresTyping, FilesTyping
<1>2. ArchiveTyping'
  BY PartSteps, InsightsKeep, ArchiveStaysTyped, CountsStayTyped DEF StoresTyping, ArchiveTyping
<1>3. TransferTyping'
  BY PartSteps, TransferKeeps, CarriedStays DEF StoresTyping, TransferTyping
<1>4. LibraryTyping'
  BY PartSteps, LibraryKeeps, TextsStayRead, DocsStayWhole DEF StoresTyping, LibraryTyping
<1>5. RetrievalTyping'
  BY PartSteps, RetrievalKeeps, RowsStayTyped, HitsStayTyped DEF StoresTyping, RetrievalTyping
<1>6. MapsTyping'
  <2>1. MapsFit'
    BY MapsFitStep DEF StoresTyping, MapsTyping
  <2> QED BY <2>1, PartSteps, HungStaysTyped, OpenStaysTyped, OneArriveStays DEF StoresTyping, MapsTyping, MapsFit
<1>7. DrawTyping'
  <2>1. [FlowNext]_flowVars /\ [TreeNext]_treeVars
    BY PartSteps
  <2>2. DrawInv'
    BY <2>1, FlowKeeps, TextKeeps, PlacesKeep DEF StoresTyping, DrawTyping, DrawInv
  <2> QED BY <2>1, <2>2, UnlaidStays, UnmeasuredStays DEF StoresTyping, DrawTyping, DrawInv
<1>8. ModelsTyping'
  BY PartSteps, ModelsKeeps, FetchStaysTyped, RunStaysTyped DEF StoresTyping, ModelsTyping
<1>9. SchemaTyping'
  <2>1. SchemaInv'
    BY PartSteps, IndexKeeps, ChatKeeps DEF StoresTyping, SchemaTyping, SchemaInv
  <2> QED BY <2>1, PartSteps, FirstStaysFit, ChatStaysTyped, OpenersStayTyped DEF StoresTyping, SchemaTyping, SchemaInv
<1> QED BY <1>1, <1>2, <1>3, <1>4, <1>5, <1>6, <1>7, <1>8, <1>9 DEF StoresTyping

(* Every variable of the ten parts keeps its type: a folder's key leads to *)
(* a file of its own, a row of the index to a document that is there, a    *)
(* chunk's numbers to those given out, a node's parent to a number, and    *)
(* one map at most is packed and arrives.                                  *)
THEOREM StoresTypes == StoresSpec => []StoresTypeOK
<1>1. StoresTyping => StoresTypeOK
  <2> SUFFICES ASSUME StoresTyping PROVE StoresTypeOK
    OBVIOUS
  <2>1. FilesTypeOK /\ ArchiveTypeOK /\ TransferTypeOK
    BY FilesTyped, ArchiveTyped, TransferTyped DEF StoresTyping, FilesTyping, ArchiveTyping, TransferTyping
  <2>2. LibraryTypeOK /\ RetrievalTypeOK
    BY LibraryTyped, RetrievalTyped DEF StoresTyping, LibraryTyping, RetrievalTyping
  <2>3. MapsTypeOK
    BY MapsTyped DEF StoresTyping, MapsTyping, MapsFit
  <2>4. FlowTypeOK /\ TreeTypeOK
    BY FlowTyped, TreeTyped DEF StoresTyping, DrawTyping, DrawInv
  <2>5. ModelsTypeOK /\ SchemaTypeOK
    BY ModelsTyped, SchemaTyped DEF StoresTyping, ModelsTyping, SchemaTyping
  <2> QED BY <2>1, <2>2, <2>3, <2>4, <2>5 DEF StoresTypeOK
<1> QED BY <1>1, TypesFirst, TypesStep, PTL DEF StoresSpec

=============================================================================
