--------------------------------- MODULE Models ---------------------------------
(***************************************************************************)
(* How the models of the speech recognition get to the disk                *)
(* (daemon/asr/whisper.rs, parakeet.rs, download.rs; `claudebase daemon    *)
(* warmup` in main.rs).  The daemon fetches one when a voice note comes,   *)
(* the installers and the operator with a command; connections break and   *)
(* processes are killed.                                                   *)
(*                                                                         *)
(* Whisper is one file, resumed where it stopped; parakeet an archive of   *)
(* four files.  Both hold a file lock, which ends with its process.        *)
(***************************************************************************)
EXTENDS Naturals, Sequences, FiniteSets

CONSTANTS Fetchers,  \* processes that want a model
          ModelSize, \* pieces of whisper's model
          LeastSize, \* pieces below which a file is taken for cut short
          Archived,  \* parakeet's files
          MaxBreaks  \* bound: broken connections and kills

ASSUME ModelsAssumption ==
    LeastSize \in 1 .. ModelSize /\ ModelSize \in Nat /\ MaxBreaks \in Nat

VARIABLES bin,    \* whisper's model file: its pieces, <<>> when there is none
          part,   \* its .part file
          bundle, \* parakeet's archive: "none", "cut", "whole"
          inner,  \* what is unpacked: [Archived -> "none", "cut", "whole"]
          files,  \* what is in place: likewise
          doing,  \* [Fetchers -> where it is, see ModelsTypeOK]
          rest,   \* [Fetchers -> pieces the response has yet to bring]
          loaded, \* fetchers that have opened a model
          breaks

whisper == <<bin, part, rest>>
parakeet == <<bundle, inner, files>>
modelVars == <<whisper, parakeet, doing, loaded, breaks>>

States == {"none", "cut", "whole"}
Model == [i \in 1 .. ModelSize |-> i]
Holding == {"ask", "copy", "copied", "fetch", "unpack", "lift"}  \* under a lock

ModelsTypeOK ==
    /\ \A f \in {bin, part} : f \in Seq(Nat) /\ Len(f) <= 2 * ModelSize
    /\ bundle \in States /\ {inner, files} \subseteq [Archived -> States]
    /\ doing \in [Fetchers -> Holding \cup {"idle", "wait", "queue", "ready", "refused"}]
    /\ \A p \in Fetchers : rest[p] \in Seq(1 .. ModelSize)
    /\ loaded \subseteq Fetchers /\ breaks \in 0 .. MaxBreaks

ModelsInit ==
    /\ bin = <<>> /\ part = <<>> /\ bundle = "none"
    /\ inner = [f \in Archived |-> "none"] /\ files = inner
    /\ doing = [p \in Fetchers |-> "idle"] /\ rest = [p \in Fetchers |-> <<>>]
    /\ loaded = {} /\ breaks = 0

Goes(p, s) == doing' = [doing EXCEPT ![p] = s]
Free(S) == \A p \in Fetchers : doing[p] \notin S

-----------------------------------------------------------------------------
(* Whisper: ensure_model.                                                  *)

\* The file is there and of a size: nothing to do.
HasModel == Len(bin) >= LeastSize

Want(p) ==
    /\ doing[p] = "idle"
    /\ Goes(p, IF HasModel THEN "ready" ELSE "wait")
    /\ UNCHANGED <<whisper, parakeet, loaded, breaks>>

\* The lock, and the look again.
LockDownload(p) ==
    /\ doing[p] = "wait" /\ Free({"ask", "copy", "copied"})
    /\ Goes(p, IF HasModel THEN "ready" ELSE "ask")
    /\ UNCHANGED <<whisper, parakeet, loaded, breaks>>

\* Mutant of Opened: the file is appended to, whatever the server answered.
OpenedAppend(partial) == part

\* A 206 is appended to the .part file, a 200 starts it anew.
Opened(partial) == IF partial THEN part ELSE <<>>

\* GET, with a Range when there is a .part file: its rest, or all of the model
\* from a server that does not do ranges; of nothing that is left, a 416.
Request(p, ranges) ==
    /\ doing[p] = "ask"
    /\ LET partial == part # <<>> /\ ranges
       IN  IF partial /\ Len(part) >= ModelSize
           THEN Goes(p, "refused") /\ UNCHANGED whisper
           ELSE /\ rest' = [rest EXCEPT ![p] = IF partial THEN SubSeq(Model, Len(part) + 1, ModelSize)
                                               ELSE Model]
                /\ part' = Opened(partial)
                /\ Goes(p, "copy") /\ UNCHANGED bin
    /\ UNCHANGED <<parakeet, loaded, breaks>>

\* copy_with_progress, a piece at a time.
CopyPiece(p) ==
    /\ doing[p] = "copy" /\ rest[p] # <<>>
    /\ part' = Append(part, Head(rest[p]))
    /\ rest' = [rest EXCEPT ![p] = Tail(@)]
    /\ Goes(p, IF rest'[p] = <<>> THEN "copied" ELSE "copy")
    /\ UNCHANGED <<bin, parakeet, loaded, breaks>>

\* The size again, and the file in its place.
Place(p) ==
    /\ doing[p] = "copied"
    /\ IF Len(part) < LeastSize THEN Goes(p, "idle") /\ UNCHANGED whisper
       ELSE bin' = part /\ part' = <<>> /\ Goes(p, "ready") /\ UNCHANGED rest
    /\ UNCHANGED <<parakeet, loaded, breaks>>

-----------------------------------------------------------------------------
(* Parakeet: ensure_model, unpack.                                         *)

HasFiles == \A f \in Archived : files[f] # "none"

WantFiles(p) ==
    /\ doing[p] = "idle"
    /\ Goes(p, IF HasFiles THEN "ready" ELSE "queue")
    /\ UNCHANGED <<whisper, parakeet, loaded, breaks>>

LockArchive(p) ==
    /\ doing[p] = "queue" /\ Free({"fetch", "unpack", "lift"})
    /\ IF HasFiles THEN Goes(p, "ready") /\ UNCHANGED bundle
       ELSE Goes(p, "fetch") /\ bundle' = "cut"
    /\ UNCHANGED <<whisper, inner, files, loaded, breaks>>

FetchArchive(p) ==
    /\ doing[p] = "fetch"
    /\ bundle' = "whole" /\ Goes(p, "unpack")
    /\ UNCHANGED <<whisper, inner, files, loaded, breaks>>

\* Mutant of UnpackInto: straight to where the files are looked for.
UnpackInPlace(f, s) == files' = [files EXCEPT ![f] = s] /\ UNCHANGED inner

\* tar: into the archive's own directory.
UnpackInto(f, s) == inner' = [inner EXCEPT ![f] = s] /\ UNCHANGED files

Unpack(p, f) ==
    /\ doing[p] = "unpack"
    /\ \A g \in Archived : inner[g] # "cut"
    /\ UnpackInto(f, "cut")
    /\ UNCHANGED <<whisper, bundle, doing, loaded, breaks>>

UnpackRest(p, f) ==
    /\ doing[p] = "unpack" /\ inner[f] = "cut"
    /\ UnpackInto(f, "whole")
    /\ UNCHANGED <<whisper, bundle, doing, loaded, breaks>>

\* tar is done: the archive goes.
Unpacked(p) ==
    /\ doing[p] = "unpack" /\ \A f \in Archived : inner[f] = "whole"
    /\ bundle' = "none" /\ Goes(p, "lift")
    /\ UNCHANGED <<whisper, inner, files, loaded, breaks>>

\* The files one by one to their place, but not over one that is there.
Lift(p, f) ==
    /\ doing[p] = "lift" /\ inner[f] # "none" /\ files[f] = "none"
    /\ files' = [files EXCEPT ![f] = inner[f]] /\ inner' = [inner EXCEPT ![f] = "none"]
    /\ UNCHANGED <<whisper, bundle, doing, loaded, breaks>>

\* What is left of the directory goes; a missing file is an error.
Lifted(p) ==
    /\ doing[p] = "lift" /\ \A f \in Archived : inner[f] # "none" => files[f] # "none"
    /\ inner' = [f \in Archived |-> "none"]
    /\ Goes(p, IF HasFiles THEN "ready" ELSE "idle")
    /\ UNCHANGED <<whisper, bundle, files, loaded, breaks>>

-----------------------------------------------------------------------------
\* transcribe_blocking: the model is opened once and kept.
LoadModel(p) ==
    /\ doing[p] = "ready"
    /\ loaded' = loaded \cup {p} /\ Goes(p, "idle")
    /\ UNCHANGED <<whisper, parakeet, breaks>>

\* The status is no success: the fetch fails, and leaves all as it is.
Refuse416(p) ==
    /\ doing[p] = "refused"
    /\ Goes(p, "idle")
    /\ UNCHANGED <<whisper, parakeet, loaded, breaks>>

\* The connection stalls or breaks, tar fails, or the process is killed: what
\* is on the disk stays there.
Break(p) ==
    /\ doing[p] \in Holding /\ breaks < MaxBreaks
    /\ breaks' = breaks + 1
    /\ Goes(p, "idle") /\ rest' = [rest EXCEPT ![p] = <<>>]
    /\ UNCHANGED <<bin, part, parakeet, loaded>>

ModelsNext ==
    \E p \in Fetchers :
        \/ Want(p) \/ LockDownload(p) \/ \E ranges \in BOOLEAN : Request(p, ranges)
        \/ CopyPiece(p) \/ Place(p)
        \/ WantFiles(p) \/ LockArchive(p) \/ FetchArchive(p) \/ Unpacked(p) \/ Lifted(p)
        \/ \E f \in Archived : Unpack(p, f) \/ UnpackRest(p, f) \/ Lift(p, f)
        \/ LoadModel(p) \/ Refuse416(p) \/ Break(p)

ModelsSpec == ModelsInit /\ [][ModelsNext]_modelVars

-----------------------------------------------------------------------------
\* ensure_model, "Range-resume implies append; initial-create implies
\* truncate" and "Atomic rename": a model that is where it is looked for is
\* whole, no piece twice and none missing, however often its download broke
\* and whoever went on with it.
ModelsSafe ==
    /\ bin \in {<<>>, Model}
    /\ \A f \in Archived : files[f] # "cut"

\* ensure_model, "kept; the next run resumes": what a broken download left is
\* no reason to fail.
NextRunResumes == \A p \in Fetchers : doing[p] # "refused"
=============================================================================
