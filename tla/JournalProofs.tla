---------------------------- MODULE JournalProofs ----------------------------
(***************************************************************************)
(* Proofs about Journal and JournalVectors: the rows of the tables fit     *)
(* together, a hypothesis ends on evidence only, and no vector outlives    *)
(* its entry, for any number of entries, links, texts and passes.          *)
(***************************************************************************)
EXTENDS JournalVectors, FiniteSetTheorems, SequenceTheorems, WellFoundedInduction, TLAPS

(* WithFlags sets flags of one entry that exists after the step. *)
LEMMA WithFlagsType ==
  ASSUME JournalTypeOK, NEW i \in Ids, NEW F \in SUBSET Flags
  PROVE  /\ WithFlags(i, F) \in [Ids -> [Flags -> FlagStates]]
         /\ \A j \in Ids \ {i} : WithFlags(i, F)[j] = flags[j]
         /\ \A f \in Flags : WithFlags(i, F)[i][f] \in Closed => f \in WorkItems
         /\ \A f \in Flags : flags[i][f] = "open" => WithFlags(i, F)[i][f] = "open"
BY DEF JournalTypeOK, WithFlags, FlagStates, Closed

(* The initial tables are empty. *)
LEMMA JournalInit == ASSUME Init PROVE JournalTypeOK
<1>1. age \in [Ids -> 0..Ttl + 1]
  <2>1. 0 \in 0..Ttl + 1 BY JournalAssumption
  <2>2. QED BY <2>1 DEF Init
<1>2. NoFlags \in [Flags -> FlagStates] BY DEF NoFlags, FlagStates
<1>3. \A i \in Ids, f \in Flags : flags[i][f] = "none" BY DEF Init, NoFlags
<1>4. QED BY <1>1, <1>2, <1>3 DEF Init, JournalTypeOK, Closed, Entries

LEMMA AddKeepsTypes ==
  ASSUME JournalTypeOK, NEW b \in Bodies, NEW proved \in BOOLEAN,
         AddAgain(b, proved) \/ \E refs \in References : AddNew(b, proved, refs)
  PROVE  JournalTypeOK'
<1> USE JournalAssumption
<1>1. CASE AddAgain(b, proved)
  <2>1. PICK i \in Twins(b) : /\ flags' = WithFlags(i, FlagsOf[b])
                              /\ proofs' = proofs \cup (IF proved THEN {i} ELSE {})
                              /\ UNCHANGED <<body, age, links, evidenceFirst>>
    BY <1>1 DEF AddAgain
  <2>2. i \in Ids /\ Exists(i) /\ FlagsOf[b] \in SUBSET Flags
    BY <2>1 DEF Twins, Entries
  <2>3. Entries' = Entries /\ \A j \in Ids : Exists(j)' <=> Exists(j)
    BY <2>1 DEF Exists, Entries
  <2>4. proofs' \in SUBSET Entries' BY <2>1, <2>2, <2>3 DEF JournalTypeOK, Entries
  <2>5. \A j \in Ids, f \in Flags :
           /\ flags'[j][f] # "none" => Exists(j)'
           /\ flags'[j][f] \in Closed => f \in WorkItems
    <3>1. /\ \A j \in Ids \ {i} : flags'[j] = flags[j]
          /\ \A f \in Flags : flags'[i][f] \in Closed => f \in WorkItems
      BY <2>1, <2>2, WithFlagsType
    <3>2. QED BY <3>1, <2>2, <2>3 DEF JournalTypeOK
  <2>6. flags' \in [Ids -> [Flags -> FlagStates]] BY <2>1, <2>2, WithFlagsType
  <2>7. \A l \in links' : Exists(l[1])' /\ Exists(l[2])' /\ l[1] # l[2]
    BY <2>1 DEF JournalTypeOK, Exists
  <2>8. QED BY <2>1, <2>4, <2>5, <2>6, <2>7 DEF JournalTypeOK
<1>2. ASSUME NEW refs \in References, AddNew(b, proved, refs) PROVE JournalTypeOK'
  <2>1. PICK n \in Ids :
            /\ NextId(n)
            /\ links' = links \cup {<<n, r[1], r[2]>> : r \in {q \in refs : Exists(q[1])}}
            /\ body' = [body EXCEPT ![n] = b] /\ age' = [age EXCEPT ![n] = 0]
            /\ flags' = WithFlags(n, FlagsOf[b])
            /\ proofs' = proofs \cup (IF proved THEN {n} ELSE {})
            /\ evidenceFirst' = evidenceFirst
    BY <1>2 DEF AddNew
  <2>2. FlagsOf[b] \in SUBSET Flags BY JournalAssumption
  <2>3. ~Exists(n) BY <2>1 DEF NextId, Entries, Ids
  <2>4. /\ body' \in [Ids -> Bodies \cup {NoBody}] /\ Exists(n)'
        /\ \A j \in Ids : Exists(j) => Exists(j)'
    BY <2>1 DEF JournalTypeOK, Exists
  <2>5. age' \in [Ids -> 0..Ttl + 1]
    BY <2>1 DEF JournalTypeOK
  <2>6. /\ links' \in SUBSET (Ids \X Ids \X LINK_KINDS)
        /\ \A l \in links' : Exists(l[1])' /\ Exists(l[2])' /\ l[1] # l[2]
    <3>1. \A r \in refs : r[1] \in Ids /\ r[2] \in LINK_KINDS
      BY DEF References
    <3>2. ASSUME NEW l \in links' \ links
          PROVE  l \in Ids \X Ids \X LINK_KINDS /\ Exists(l[1])' /\ Exists(l[2])' /\ l[1] # l[2]
      <4>1. PICK r \in refs : Exists(r[1]) /\ l = <<n, r[1], r[2]>> BY <2>1, <3>2
      <4>2. r[1] \in Ids /\ r[2] \in LINK_KINDS BY <3>1
      <4>3. QED BY <4>1, <4>2, <2>3, <2>4
    <3>3. QED BY <3>2, <2>4 DEF JournalTypeOK
  <2>7. proofs' \in SUBSET Entries' BY <2>1, <2>4 DEF JournalTypeOK, Entries
  <2>8. QED BY <2>1, <2>2, <2>4, <2>5, <2>6, <2>7, WithFlagsType DEF JournalTypeOK
<1>3. QED BY <1>1, <1>2

(* The flags of entries that exist may take any value that only closes     *)
(* work items.                                                             *)
LEMMA FlagStepType ==
  ASSUME JournalTypeOK, NEW i \in Ids, Exists(i), NEW fs \in [Flags -> FlagStates],
         \A f \in Flags : fs[f] \in Closed => f \in WorkItems,
         flags' = [flags EXCEPT ![i] = fs],
         UNCHANGED <<body, age, links, proofs, evidenceFirst>>
  PROVE  JournalTypeOK'
<1>1. /\ flags' \in [Ids -> [Flags -> FlagStates]]
      /\ flags'[i] = fs /\ \A j \in Ids \ {i} : flags'[j] = flags[j]
  BY DEF JournalTypeOK
<1>2. Entries' = Entries /\ \A j : Exists(j)' <=> Exists(j)  BY DEF Entries, Exists
<1>3. \A j \in Ids, f \in Flags :
         /\ flags'[j][f] # "none" => Exists(j)'
         /\ flags'[j][f] \in Closed => f \in WorkItems
  BY <1>1, <1>2 DEF JournalTypeOK
<1>4. QED BY <1>1, <1>2, <1>3 DEF JournalTypeOK

LEMMA FlagsKeepTypes ==
  ASSUME JournalTypeOK, NEW i \in Ids, NEW F \in SUBSET Flags,
         \/ Mark(i, F) \/ Unmark(i, F)
         \/ F \subseteq WorkItems /\ Reopen(i, F)
  PROVE  JournalTypeOK'
<1>1. CASE Mark(i, F)
  <2>. DEFINE fs == [f \in Flags |-> IF f \in F /\ flags[i][f] = "none" THEN "open" ELSE flags[i][f]]
  <2>1. fs \in [Flags -> FlagStates] /\ \A f \in Flags : fs[f] \in Closed => f \in WorkItems
    BY DEF JournalTypeOK, FlagStates, Closed
  <2>2. flags' = [flags EXCEPT ![i] = fs]
    BY <1>1 DEF Mark, WithFlags, JournalTypeOK
  <2>. HIDE DEF fs
  <2>3. QED BY <1>1, <2>1, <2>2, FlagStepType DEF Mark
<1>2. CASE Unmark(i, F)
  <2>. DEFINE fs == [f \in Flags |-> IF f \in F THEN "none" ELSE flags[i][f]]
  <2>1. fs \in [Flags -> FlagStates] /\ \A f \in Flags : fs[f] \in Closed => f \in WorkItems
    BY DEF JournalTypeOK, FlagStates, Closed
  <2>2. flags' = [flags EXCEPT ![i] = fs]
    BY <1>2 DEF Unmark, JournalTypeOK
  <2>. HIDE DEF fs
  <2>3. QED BY <1>2, <2>1, <2>2, FlagStepType DEF Unmark
<1>3. CASE F \subseteq WorkItems /\ Reopen(i, F)
  <2>. DEFINE fs == [f \in Flags |-> IF f \in F THEN "open" ELSE flags[i][f]]
  <2>1. fs \in [Flags -> FlagStates] /\ \A f \in Flags : fs[f] \in Closed => f \in WorkItems
    BY <1>3 DEF JournalTypeOK, FlagStates, Closed
  <2>2. flags' = [flags EXCEPT ![i] = fs]
    BY <1>3 DEF Reopen, JournalTypeOK
  <2>. HIDE DEF fs
  <2>3. QED BY <1>3, <2>1, <2>2, FlagStepType DEF Reopen
<1>4. QED BY <1>1, <1>2, <1>3

(* A close writes one resolution to work items that were open and leaves   *)
(* every other flag; a hypothesis it ends had its proof or is abandoned.   *)
LEMMA CloseStep ==
  ASSUME JournalTypeOK, NEW i \in Ids, NEW items \in SUBSET WorkItems,
         NEW abandon \in BOOLEAN, Close(i, items, abandon)
  PROVE  /\ flags' \in [Ids -> [Flags -> FlagStates]]
         /\ \A e \in Ids, f \in Flags :
               \/ flags'[e][f] = flags[e][f]
               \/ /\ flags'[e][f] \in Closed /\ f \in OpenItems(e)
                  /\ f = "unverified" => HasProof(e) \/ flags'[e][f] = "dropped"
<1>. DEFINE branch == IF "todo" \in items THEN BranchIds(i) ELSE {}
            resolution == IF abandon /\ items \cap {"todo", "unverified"} # {}
                          THEN "dropped" ELSE "done"
            Ends(e, f) == \/ e = i /\ f \in items
                          \/ /\ e \in branch \ {i} /\ f \in OpenItems(e)
                             /\ ~Spared(e, f, abandon)
<1>1. /\ items \subseteq OpenItems(i)
      /\ abandon \/ Checked(i, items, branch)
      /\ flags' = [e \in Ids |-> [f \in Flags |->
                     IF Ends(e, f) THEN resolution ELSE flags[e][f]]]
  BY DEF Close
<1>2. \A e \in Ids, f \in Flags : Ends(e, f) =>
         /\ f \in OpenItems(e)
         /\ f = "unverified" => HasProof(e) \/ resolution = "dropped"
  BY <1>1 DEF Checked, Spared
<1>3. resolution \in Closed BY DEF Closed
<1>. HIDE DEF Ends, resolution
<1>4. flags' \in [Ids -> [Flags -> FlagStates]]
  BY <1>1, <1>3 DEF JournalTypeOK, FlagStates, Closed
<1>5. \A e \in Ids, f \in Flags :
         flags'[e][f] = IF Ends(e, f) THEN resolution ELSE flags[e][f]
  BY <1>1
<1>6. QED BY <1>2, <1>3, <1>4, <1>5

LEMMA CloseKeepsTypes ==
  ASSUME JournalTypeOK, NEW i \in Ids, NEW items \in SUBSET WorkItems,
         NEW abandon \in BOOLEAN, Close(i, items, abandon)
  PROVE  JournalTypeOK'
<1>1. UNCHANGED <<body, age, links, proofs, evidenceFirst>> BY DEF Close
<1>2. Entries' = Entries /\ \A j : Exists(j)' <=> Exists(j)  BY <1>1 DEF Entries, Exists
<1>3. \A e \in Ids, f \in Flags :
         /\ flags'[e][f] # "none" => Exists(e)'
         /\ flags'[e][f] \in Closed => f \in WorkItems
  <2>. TAKE e \in Ids, f \in Flags
  <2>1. CASE flags'[e][f] = flags[e][f] BY <2>1, <1>2 DEF JournalTypeOK
  <2>2. CASE flags'[e][f] \in Closed /\ f \in OpenItems(e)
    BY <2>2, <1>2 DEF JournalTypeOK, OpenItems, Open
  <2>3. QED BY <2>1, <2>2, CloseStep
<1>4. QED BY <1>1, <1>2, <1>3, CloseStep DEF JournalTypeOK

(* What refers to a deleted entry goes with it. *)
LEMMA DeleteKeepsTypes ==
  ASSUME JournalTypeOK, NEW gone \in SUBSET Ids, DeleteRows(gone)
  PROVE  JournalTypeOK'
<1>1. /\ body' = [i \in Ids |-> IF i \in gone THEN NoBody ELSE body[i]]
      /\ age' = [i \in Ids |-> IF i \in gone THEN 0 ELSE age[i]]
      /\ flags' = [i \in Ids |-> IF i \in gone THEN NoFlags ELSE flags[i]]
      /\ links' = {l \in links : l[1] \notin gone /\ l[2] \notin gone}
      /\ proofs' = proofs \ gone /\ evidenceFirst' = evidenceFirst
  BY DEF DeleteRows
<1>2. \A j \in Ids \ gone : Exists(j)' <=> Exists(j)  BY <1>1 DEF Exists
<1>3. body' \in [Ids -> Bodies \cup {NoBody}] BY <1>1 DEF JournalTypeOK
<1>4. age' \in [Ids -> 0..Ttl + 1]
  <2>1. 0 \in 0..Ttl + 1 BY JournalAssumption
  <2>2. QED BY <1>1, <2>1 DEF JournalTypeOK
<1>5. NoFlags \in [Flags -> FlagStates] /\ \A f \in Flags : NoFlags[f] = "none"
  BY DEF NoFlags, FlagStates
<1>6. flags' \in [Ids -> [Flags -> FlagStates]] BY <1>1, <1>5 DEF JournalTypeOK
<1>7. \A l \in links' : Exists(l[1])' /\ Exists(l[2])' /\ l[1] # l[2]
  BY <1>1, <1>2 DEF JournalTypeOK
<1>8. proofs' \in SUBSET Entries' BY <1>1, <1>2 DEF JournalTypeOK, Entries
<1>9. \A j \in Ids, f \in Flags :
         /\ flags'[j][f] # "none" => Exists(j)'
         /\ flags'[j][f] \in Closed => f \in WorkItems
  <2>. TAKE j \in Ids, f \in Flags
  <2>1. CASE j \in gone BY <2>1, <1>1, <1>5 DEF Closed
  <2>2. CASE j \notin gone BY <2>2, <1>1, <1>2 DEF JournalTypeOK
  <2>3. QED BY <2>1, <2>2
<1>10. QED BY <1>1, <1>3, <1>4, <1>6, <1>7, <1>8, <1>9 DEF JournalTypeOK

LEMMA JournalStep == ASSUME JournalTypeOK, [Next]_vars PROVE JournalTypeOK'
<1>1. ASSUME NEW b \in Bodies, NEW proved \in WithProof(b),
             \/ AddAgain(b, proved)
             \/ \E refs \in References : AddNew(b, proved, refs)
      PROVE  JournalTypeOK'
  <2>1. proved \in BOOLEAN BY DEF WithProof
  <2>2. QED BY <1>1, <2>1, AddKeepsTypes
<1>2. ASSUME NEW i \in Ids, NEW j \in Ids, NEW k \in KindsUsed, Link(i, j, k)
      PROVE  JournalTypeOK'
  <2>1. k \in LINK_KINDS BY JournalAssumption
  <2>2. QED BY <1>2, <2>1 DEF Link, JournalTypeOK, Exists, Entries
<1>3. ASSUME NEW l \in links, Unlink(l) PROVE JournalTypeOK'
  BY <1>3 DEF Unlink, JournalTypeOK, Exists, Entries
<1>4. ASSUME NEW i \in Ids, NEW f \in Flags, Mark(i, {f}) \/ Unmark(i, {f})
      PROVE  JournalTypeOK'
  BY <1>4, FlagsKeepTypes
<1>5. ASSUME NEW i \in Ids, NEW items \in SUBSET WorkItems, NEW abandon \in BOOLEAN,
             Close(i, items, abandon)
      PROVE  JournalTypeOK'
  BY <1>5, CloseKeepsTypes
<1>6. ASSUME NEW i \in Ids, NEW F \in SUBSET WorkItems, Reopen(i, F) PROVE JournalTypeOK'
  <2>1. F \in SUBSET Flags BY DEF WorkItems, Flags
  <2>2. QED BY <1>6, <2>1, FlagsKeepTypes
<1>7. ASSUME NEW i \in Ids, Delete(i) PROVE JournalTypeOK'
  BY <1>7, DeleteKeepsTypes DEF Delete
<1>8. CASE SetPolicy BY <1>8 DEF SetPolicy, JournalTypeOK, Exists, Entries
<1>9. CASE Gc
  <2>1. PICK gone \in SUBSET Ids : DeleteRows(gone) BY <1>9 DEF Gc, Entries
  <2>2. QED BY <2>1, DeleteKeepsTypes
<1>10. CASE TimePasses
  <2>1. age' \in [Ids -> 0..Ttl + 1]
    BY <1>10, JournalAssumption DEF TimePasses, JournalTypeOK
  <2>2. QED BY <1>10, <2>1 DEF TimePasses, JournalTypeOK, Exists, Entries
<1>11. CASE UNCHANGED vars BY <1>11 DEF vars, JournalTypeOK, Exists, Entries
<1>12. QED BY <1>1, <1>2, <1>3, <1>4, <1>5, <1>6, <1>7, <1>8, <1>9, <1>10, <1>11 DEF Next

(* Types: links join two different entries that exist, flags and proofs    *)
(* belong to one, only work items are closed (the schema, entry_links,     *)
(* entry_flags).                                                           *)
THEOREM JournalTypes == Spec => []JournalTypeOK
<1>1. QED BY JournalInit, JournalStep, PTL DEF Spec

(* What one step does to an open hypothesis. *)
LEMMA HypothesisStep ==
  ASSUME JournalTypeOK, [Next]_vars, NEW i \in Ids, Open(i, "unverified"),
         body'[i] # NoBody, flags'[i]["unverified"] \notin {"open", "dropped"}
  PROVE  HasProof(i)
<1>. USE DEF Open
<1>0. "unverified" \in Flags BY DEF Flags
<1>1. ASSUME NEW b \in Bodies, NEW proved \in WithProof(b),
             \/ AddAgain(b, proved)
             \/ \E refs \in References : AddNew(b, proved, refs)
      PROVE  FALSE
  <2>1. PICK j \in Ids : flags' = WithFlags(j, FlagsOf[b])
    BY <1>1 DEF AddAgain, AddNew, Twins, Entries
  <2>2. FlagsOf[b] \in SUBSET Flags BY JournalAssumption
  <2>3. flags'[i]["unverified"] = "open"
    <3>1. CASE j = i BY <3>1, <2>1, <2>2, <1>0, WithFlagsType
    <3>2. CASE j # i BY <3>2, <2>1, <2>2, WithFlagsType
    <3>3. QED BY <3>1, <3>2
  <2>4. QED BY <2>3
<1>2. ASSUME NEW j \in Ids, NEW k \in Ids, NEW kind \in KindsUsed, Link(j, k, kind)
      PROVE  FALSE
  BY <1>2 DEF Link
<1>3. ASSUME NEW l \in links, Unlink(l) PROVE FALSE BY <1>3 DEF Unlink
<1>4. ASSUME NEW j \in Ids, NEW f \in Flags, Mark(j, {f}) PROVE FALSE
  <2>1. flags' = WithFlags(j, {f}) BY <1>4 DEF Mark
  <2>2. CASE j = i BY <2>2, <2>1, <1>0, WithFlagsType
  <2>3. CASE j # i BY <2>3, <2>1, WithFlagsType
  <2>4. QED BY <2>2, <2>3
<1>5. ASSUME NEW j \in Ids, NEW f \in Flags, Unmark(j, {f}) PROVE HasProof(i)
  <2>1. CASE j = i /\ f = "unverified" BY <1>5, <2>1 DEF Unmark
  <2>2. CASE ~(j = i /\ f = "unverified")
    <3>1. flags'[i]["unverified"] = flags[i]["unverified"]
      BY <1>5, <2>2, <1>0 DEF Unmark, JournalTypeOK
    <3>2. QED BY <3>1
  <2>3. QED BY <2>1, <2>2
<1>6. ASSUME NEW j \in Ids, NEW items \in SUBSET WorkItems, NEW abandon \in BOOLEAN,
             Close(j, items, abandon)
      PROVE  HasProof(i)
  BY <1>6, <1>0, CloseStep
<1>7. ASSUME NEW j \in Ids, NEW F \in SUBSET WorkItems, Reopen(j, F) PROVE FALSE
  BY <1>7, <1>0 DEF Reopen, JournalTypeOK
<1>8. ASSUME NEW gone \in SUBSET Ids, DeleteRows(gone) PROVE FALSE
  BY <1>8 DEF DeleteRows
<1>9. CASE SetPolicy BY <1>9 DEF SetPolicy
<1>10. CASE TimePasses BY <1>10 DEF TimePasses
<1>11. CASE UNCHANGED vars BY <1>11 DEF vars
<1>12. ASSUME NEW j \in Ids, Delete(j) PROVE FALSE BY <1>12, <1>8 DEF Delete
<1>13. CASE Gc BY <1>13, <1>8 DEF Gc, Entries
<1>14. QED
  BY <1>1, <1>2, <1>3, <1>4, <1>5, <1>6, <1>7, <1>9, <1>10, <1>11, <1>12, <1>13 DEF Next

(* An open hypothesis ends, by close, unmark or the close of its branch,   *)
(* only with a separate live entry that verifies it, unless it is          *)
(* recorded as abandoned or the entry goes (require_proof, close_with).    *)
THEOREM HypothesesNeedEvidence == Spec => UnverifiedNeedsEvidence
<1>1. ASSUME JournalTypeOK, [Next]_vars
      PROVE  [\A i \in Ids :
                /\ Open(i, "unverified") /\ body'[i] # NoBody
                /\ flags'[i]["unverified"] \notin {"open", "dropped"}
                => HasProof(i)]_vars
  BY <1>1, HypothesisStep
<1>2. QED BY <1>1, JournalTypes, PTL DEF Spec, UnverifiedNeedsEvidence

VectorsInv == VectorsTypeOK /\ VectorHasEntry

LEMMA VectorsStep ==
  ASSUME JournalTypeOK, VectorsInv, [VNext]_vvars PROVE VectorsInv'
<1>. USE DEF VectorsInv, VectorsTypeOK, VectorHasEntry, Exists
<1>1. CASE Request
  <2>1. body' \in [Ids -> Bodies \cup {NoBody}]
    <3>1. [Next]_vars BY <1>1 DEF Request
    <3>2. QED BY <3>1, JournalStep DEF JournalTypeOK
  <2>2. QED BY <1>1, <2>1 DEF Request, Trigger
<1>2. ASSUME NEW e \in Embedders, ReadMissing(e) PROVE VectorsInv'
  <2>1. {<<i, body[i]>> : i \in Missing} \in SUBSET (Ids \X Bodies)
    BY DEF Missing, Entries, JournalTypeOK
  <2>2. QED BY <1>2, <2>1 DEF ReadMissing, journal
<1>3. ASSUME NEW e \in Embedders, StoreVector(e) PROVE VectorsInv'
  <2>1. PICK p \in batch[e] :
           /\ vec' = IF Exists(p[1]) THEN [vec EXCEPT ![p[1]] = p[2]] ELSE vec
           /\ batch' = [batch EXCEPT ![e] = @ \ {p}] /\ UNCHANGED journal
    BY <1>3 DEF StoreVector
  <2>2. p[1] \in Ids /\ p[2] \in Bodies BY <2>1
  <2>3. QED BY <2>1, <2>2 DEF journal
<1>4. ASSUME NEW e \in Embedders, EmbedFails(e) PROVE VectorsInv'
  BY <1>4 DEF EmbedFails, journal
<1>5. CASE UNCHANGED vvars BY <1>5 DEF vvars, journal
<1>6. QED BY <1>1, <1>2, <1>3, <1>4, <1>5 DEF VNext

(* No vector outlives its entry, whenever a pass stores it: the trigger    *)
(* takes it along and store_vector looks for the entry first.              *)
THEOREM NoOrphanedVector == VSpec => []VectorHasEntry
<1>1. VInit => JournalTypeOK /\ VectorsInv
  BY JournalInit DEF VInit, VectorsInv, VectorsTypeOK, VectorHasEntry
<1>2. JournalTypeOK /\ VectorsInv /\ [VNext]_vvars => JournalTypeOK' /\ VectorsInv'
  <2>1. [VNext]_vvars => [Next]_vars
    BY DEF VNext, Request, ReadMissing, StoreVector, EmbedFails, vvars, journal, vars
  <2>2. QED BY <2>1, JournalStep, VectorsStep
<1>3. VectorsInv => VectorHasEntry BY DEF VectorsInv
<1>4. QED BY <1>1, <1>2, <1>3, PTL DEF VSpec

-----------------------------------------------------------------------------
(* Induction, and recursion over the numbers.                              *)

LEMMA NatSetInduction ==
  ASSUME NEW S \in SUBSET Nat, 0 \in S, \A n \in S : n + 1 \in S
  PROVE  S = Nat
<1> DEFINE T == Nat \ S
<1>1. SUFFICES ASSUME T # {} PROVE FALSE
  OBVIOUS
<1>2. PICK t \in T : \A s \in T : ~(<<s, t>> \in OpToRel(<, Nat))
  BY <1>1, NatLessThanWellFounded, WFMin, ZenonT(30)
<1>3. t \in Nat /\ t # 0 /\ t - 1 \in Nat /\ t - 1 < t
  OBVIOUS
<1>4. <<t - 1, t>> \in {p \in Nat \X Nat : p[1] < p[2]}
  BY <1>3
<1>5. t - 1 \notin T
  BY <1>2, <1>4, Zenon DEF OpToRel
<1> QED BY <1>3, <1>5

(* f starts with v0 and goes on from each value by F. *)
Iterates(f, v0, F) == f[0] = v0 /\ \A n \in Nat : f[n + 1] = F[<<n + 1, f[n]>>]

LEMMA RecursiveFcn ==
  ASSUME NEW V, NEW v0 \in V, NEW F \in [Nat \X V -> V]
  PROVE  \E f \in [Nat -> V] : Iterates(f, v0, F)
<1> DEFINE Follows(g, n) == g[0] = v0 /\ \A k \in 1..n : g[k] = F[<<k, g[k - 1]>>]
           S == {n \in Nat : \E g \in [Nat -> V] : Follows(g, n)}
           T == {n \in Nat : \A g, h \in [Nat -> V] : \A m \in Nat :
                    n <= m /\ Follows(g, n) /\ Follows(h, m) => g[n] = h[n]}
<1>1. S = Nat
  <2>1. 0 \in S
    <3>1. [k \in Nat |-> v0] \in [Nat -> V] /\ Follows([k \in Nat |-> v0], 0)
      OBVIOUS
    <3> QED BY <3>1
  <2>2. ASSUME NEW n \in S PROVE n + 1 \in S
    <3>1. PICK g \in [Nat -> V] : Follows(g, n)
      OBVIOUS
    <3> DEFINE h == [g EXCEPT ![n + 1] = F[<<n + 1, g[n]>>]]
    <3>2. n + 1 \in Nat /\ n \in Nat /\ <<n + 1, g[n]>> \in Nat \X V
      OBVIOUS
    <3>3. h \in [Nat -> V]
      BY <3>2
    <3>4. Follows(h, n + 1)
      <4>1. h[0] = v0
        BY <3>1, <3>2
      <4>2. ASSUME NEW k \in 1..(n + 1) PROVE h[k] = F[<<k, h[k - 1]>>]
        <5>1. CASE k = n + 1
          <6>1. h[k] = F[<<n + 1, g[n]>>] /\ h[k - 1] = g[n]
            BY <5>1, <3>2
          <6> QED BY <6>1, <5>1
        <5>2. CASE k # n + 1
          <6>1. k \in 1..n /\ k \in Nat /\ k - 1 \in Nat
            BY <5>2, <3>2
          <6>2. h[k] = g[k] /\ h[k - 1] = g[k - 1]
            BY <6>1, <3>2
          <6> QED BY <6>1, <6>2, <3>1
        <5> QED BY <5>1, <5>2
      <4> QED BY <4>1, <4>2
    <3> HIDE DEF h
    <3> QED BY <3>2, <3>3, <3>4
  <2> HIDE DEF S
  <2>3. S \in SUBSET Nat
    BY DEF S
  <2> QED BY <2>1, <2>2, <2>3, NatSetInduction
<1>2. T = Nat
  <2>1. 0 \in T
    OBVIOUS
  <2>2. ASSUME NEW n \in T PROVE n + 1 \in T
    <3>1. SUFFICES ASSUME NEW g \in [Nat -> V], NEW h \in [Nat -> V], NEW m \in Nat,
                          n + 1 <= m, Follows(g, n + 1), Follows(h, m)
                   PROVE  g[n + 1] = h[n + 1]
      OBVIOUS
    <3>2. n \in Nat /\ n <= m /\ n + 1 \in 1..(n + 1) /\ n + 1 \in 1..m /\ (n + 1) - 1 = n
      BY <3>1
    <3>3. Follows(g, n)
      BY <3>1, <3>2
    <3>4. g[n] = h[n]
      BY <3>1, <3>2, <3>3
    <3>5. g[n + 1] = F[<<n + 1, g[n]>>] /\ h[n + 1] = F[<<n + 1, h[n]>>]
      BY <3>1, <3>2
    <3> QED BY <3>4, <3>5
  <2> HIDE DEF T
  <2>3. T \in SUBSET Nat
    BY DEF T
  <2> QED BY <2>1, <2>2, <2>3, NatSetInduction
<1> DEFINE G(n) == CHOOSE g \in [Nat -> V] : Follows(g, n)
           f == [n \in Nat |-> G(n)[n]]
<1>3. ASSUME NEW n \in Nat PROVE G(n) \in [Nat -> V] /\ Follows(G(n), n)
  <2>1. \E g \in [Nat -> V] : Follows(g, n)
    BY <1>1
  <2> HIDE DEF Follows
  <2> QED BY <2>1
<1> HIDE DEF G
<1>4. f \in [Nat -> V]
  BY <1>3
<1>5. ASSUME NEW n \in Nat
      PROVE  f[n] = IF n = 0 THEN v0 ELSE F[<<n, f[n - 1]>>]
  <2>1. CASE n = 0
    BY <2>1, <1>3
  <2>2. CASE n # 0
    <3>1. n - 1 \in Nat /\ n \in 1..n /\ n - 1 <= n
      BY <2>2
    <3>2. G(n)[n] = F[<<n, G(n)[n - 1]>>]
      BY <3>1, <1>3
    <3>3. G(n - 1)[n - 1] = G(n)[n - 1]
      BY <1>2, <1>3, <3>1
    <3> QED BY <3>1, <3>2, <3>3, <2>2
  <2> QED BY <2>1, <2>2
<1>6. f[0] = v0 /\ \A n \in Nat : f[n + 1] = F[<<n + 1, f[n]>>]
  <2>1. ASSUME NEW n \in Nat PROVE f[n + 1] = F[<<n + 1, f[n]>>]
    <3>1. n + 1 \in Nat /\ n + 1 # 0 /\ (n + 1) - 1 = n
      OBVIOUS
    <3> HIDE DEF f
    <3> QED BY <3>1, <1>5
  <2> HIDE DEF f
  <2> QED BY <2>1, <1>5
<1> HIDE DEF f
<1> QED BY <1>4, <1>6 DEF Iterates

-----------------------------------------------------------------------------
(* Listings in order.                                                      *)

(* q has the elements of S in the order of a listing. *)
InOrder(q, latest) ==
    \A j, k \in DOMAIN q : j < k => IF latest THEN q[j] > q[k] ELSE q[j] < q[k]

Before(x, y, latest) == IF latest THEN x > y ELSE x < y

(* q has every element of S, once and in order. *)
Lists(q, S, latest) ==
    /\ q \in [1..Cardinality(S) -> S] /\ Cardinality(S) \in Nat
    /\ \A j, k \in 1..Cardinality(S) : j < k => Before(q[j], q[k], latest)
    /\ \A j, k \in 1..Cardinality(S) : j # k => q[j] # q[k]
    /\ \A x \in S : \E k \in 1..Cardinality(S) : q[k] = x

LEMMA IdsFinite ==
  ASSUME NEW n \in Nat, NEW S \in SUBSET (1..n)
  PROVE  IsFiniteSet(S) /\ Cardinality(S) \in Nat /\ Cardinality(S) <= n
<1>1. IsFiniteSet(1..n) /\ Cardinality(1..n) = n
  BY FS_Interval
<1> QED BY <1>1, FS_Subset, FS_CardinalityType

LEMMA ListingExists ==
  ASSUME NEW N \in Nat, NEW S \in SUBSET (1..N), NEW latest \in BOOLEAN
  PROVE  \E q \in [1..Cardinality(S) -> S] : InOrder(q, latest)
<1> DEFINE T == {n \in Nat : \A R \in SUBSET (1..n) :
                               \E q \in [1..Cardinality(R) -> R] : InOrder(q, latest)}
<1>1. 0 \in T
  <2>1. ASSUME NEW R \in SUBSET (1..0)
        PROVE  \E q \in [1..Cardinality(R) -> R] : InOrder(q, latest)
    <3>1. R = {}
      OBVIOUS
    <3>3. Cardinality(R) = 0
      BY <3>1, FS_EmptySet
    <3>2. <<>> \in [1..0 -> R] /\ InOrder(<<>>, latest)
      BY DEF InOrder
    <3> QED BY <3>1, <3>2, <3>3
  <2> QED BY <2>1
<1>2. ASSUME NEW n \in T PROVE n + 1 \in T
  <2>1. n \in Nat
    OBVIOUS
  <2>2. ASSUME NEW R \in SUBSET (1..(n + 1))
        PROVE  \E q \in [1..Cardinality(R) -> R] : InOrder(q, latest)
    <3>1. CASE n + 1 \notin R
      <4>1. R \in SUBSET (1..n)
        BY <3>1, <2>1
      <4> QED BY <4>1
    <3>2. CASE n + 1 \in R
      <4> DEFINE Q == R \ {n + 1}
                 m == Cardinality(Q)
      <4>1. Q \in SUBSET (1..n)
        BY <2>1
      <4>2. m \in Nat /\ Cardinality(R) = m + 1
        <5>1. IsFiniteSet(R) /\ Cardinality(R) \in Nat
          <6>1. n + 1 \in Nat
            BY <2>1
          <6> QED BY <6>1, IdsFinite
        <5>2. m \in Nat
          BY <4>1, <2>1, IdsFinite
        <5>3. m = Cardinality(R) - 1
          BY <5>1, <3>2, FS_RemoveElement
        <5> QED BY <5>1, <5>2, <5>3
      <4>3. PICK q \in [1..m -> Q] : InOrder(q, latest)
        BY <4>1
      <4> HIDE DEF m, Q
      <4>4. \A k \in 1..m : q[k] \in R /\ q[k] \in Nat /\ q[k] < n + 1
        <5>1. \A k \in 1..m : q[k] \in Q
          BY <4>3
        <5>2. Q \subseteq R /\ \A x \in Q : x \in Nat /\ x < n + 1
          BY <4>1, <2>1 DEF Q
        <5> QED BY <5>1, <5>2
      <4>5. CASE latest
        <5> DEFINE p == [k \in 1..(m + 1) |-> IF k = 1 THEN n + 1 ELSE q[k - 1]]
        <5>1. p \in [1..(m + 1) -> R]
          BY <4>2, <4>4, <3>2
        <5>2. ASSUME NEW j \in 1..(m + 1), NEW k \in 1..(m + 1), j < k
              PROVE  p[j] > p[k]
          <6>1. k - 1 \in 1..m /\ p[k] = q[k - 1]
            BY <5>2, <4>2
          <6>2. CASE j = 1
            BY <6>1, <6>2, <4>4, <2>1
          <6>3. CASE j # 1
            <7>1. j - 1 \in 1..m /\ p[j] = q[j - 1] /\ j - 1 < k - 1
              BY <5>2, <4>2, <6>3
            <7> QED BY <7>1, <6>1, <4>3, <4>5 DEF InOrder
          <6> QED BY <6>2, <6>3
        <5>3. InOrder(p, latest)
          BY <5>2, <4>5 DEF InOrder
        <5> QED BY <5>1, <5>3, <4>2
      <4>6. CASE ~latest
        <5> DEFINE p == [k \in 1..(m + 1) |-> IF k = m + 1 THEN n + 1 ELSE q[k]]
        <5>1. p \in [1..(m + 1) -> R]
          BY <4>2, <4>4, <3>2
        <5>2. ASSUME NEW j \in 1..(m + 1), NEW k \in 1..(m + 1), j < k
              PROVE  p[j] < p[k]
          <6>1. j \in 1..m /\ p[j] = q[j]
            BY <5>2, <4>2
          <6>2. CASE k = m + 1
            BY <6>1, <6>2, <4>4, <2>1
          <6>3. CASE k # m + 1
            <7>1. k \in 1..m /\ p[k] = q[k]
              BY <5>2, <4>2, <6>3
            <7> QED BY <7>1, <6>1, <5>2, <4>3, <4>6 DEF InOrder
          <6> QED BY <6>2, <6>3
        <5>3. InOrder(p, latest)
          BY <5>2, <4>6 DEF InOrder
        <5> QED BY <5>1, <5>3, <4>2
      <4> QED BY <4>5, <4>6
    <3> QED BY <3>1, <3>2
  <2>3. n + 1 \in Nat
    BY <2>1
  <2> QED BY <2>2, <2>3
<1> HIDE DEF T
<1>3. T \in SUBSET Nat
  BY DEF T
<1>4. T = Nat
  BY <1>1, <1>2, <1>3, NatSetInduction
<1> QED BY <1>4 DEF T

(* A listing of S has every element of S, once, in order. *)
LEMMA ListedWhole ==
  ASSUME NEW N \in Nat, NEW S \in SUBSET (1..N), NEW latest \in BOOLEAN
  PROVE  Lists(Listed(S, latest), S, latest)
<1> DEFINE q == Listed(S, latest)
           m == Cardinality(S)
<1>0. \A x \in S : x \in Nat
  OBVIOUS
<1>1. m \in Nat /\ IsFiniteSet(S)
  BY IdsFinite
<1>2. q \in [1..m -> S] /\ InOrder(q, latest)
  <2>1. \E p \in [1..m -> S] : InOrder(p, latest)
    BY ListingExists
  <2> QED BY <2>1 DEF Listed, InOrder
<1> HIDE DEF q, m
<1>3. ASSUME NEW j \in 1..m, NEW k \in 1..m, j # k PROVE q[j] # q[k]
  <2>1. j \in Nat /\ k \in Nat /\ DOMAIN q = 1..m
    BY <1>1, <1>2
  <2>4. q[j] \in Nat /\ q[k] \in Nat
    <3>1. q[j] \in S /\ q[k] \in S
      BY <1>2
    <3> QED BY <3>1, <1>0
  <2>2. CASE j < k
    BY <2>1, <2>4, <2>2, <1>2 DEF InOrder
  <2>3. CASE k < j
    BY <2>1, <2>4, <2>3, <1>2 DEF InOrder
  <2> QED BY <2>1, <2>2, <2>3, <1>3
<1>4. ASSUME NEW x \in S PROVE \E k \in 1..m : q[k] = x
  <2>1. SUFFICES ASSUME \A k \in 1..m : q[k] # x PROVE FALSE
    OBVIOUS
  <2>2. q \in [1..m -> S \ {x}]
    BY <1>2, <2>1
  <2>3. IsFiniteSet(S \ {x}) /\ Cardinality(S \ {x}) = m - 1
    BY <1>1, FS_RemoveElement DEF m
  <2>4. IsFiniteSet(1..m) /\ Cardinality(1..m) = m
    BY <1>1, FS_Interval
  <2>5. Cardinality(S \ {x}) < Cardinality(1..m)
    BY <2>3, <2>4, <1>1
  <2>6. \E j, k \in 1..m : j # k /\ q[j] = q[k]
    <3>1. IsFiniteSet(S \ {x}) /\ IsFiniteSet(1..m)
      BY <2>3, <2>4
    <3> DEFINE R == S \ {x}
               D == 1..m
    <3>2. q \in [D -> R] /\ Cardinality(R) < Cardinality(D) /\ IsFiniteSet(R) /\ IsFiniteSet(D)
      BY <2>2, <2>5, <3>1
    <3> HIDE DEF R, D
    <3>3. \E j, k \in D : j # k /\ q[j] = q[k]
      BY <3>2, FS_PigeonHole
    <3> QED BY <3>3 DEF D
  <2> QED BY <2>6, <1>3
<1>5. \A j, k \in 1..m : j < k => Before(q[j], q[k], latest)
  BY <1>2 DEF InOrder, Before
<1> QED BY <1>1, <1>2, <1>3, <1>4, <1>5 DEF q, m, Lists

-----------------------------------------------------------------------------
(* Walks along links, breadth first.                                       *)

(* What a walk has seen once it has looked at its n-th entry. *)
After(n, seen, next, latest) ==
    IF n > Len(seen) THEN seen
    ELSE Cap(seen \o Listed(next[seen[n]] \ ToSet(seen), latest))

LEMMA ListedSeq ==
  ASSUME NEW S \in SUBSET Ids, NEW latest \in BOOLEAN
  PROVE  /\ Listed(S, latest) \in Seq(S) /\ Listed(S, latest) \in Seq(Ids)
         /\ Len(Listed(S, latest)) = Cardinality(S) /\ Cardinality(S) \in Nat
<1>1. /\ Listed(S, latest) \in [1..Cardinality(S) -> S]
      /\ Cardinality(S) \in Nat
  <2>1. MaxEntries \in Nat /\ S \in SUBSET (1..MaxEntries)
    BY JournalAssumption DEF Ids
  <2>2. Lists(Listed(S, latest), S, latest)
    BY <2>1, ListedWhole
  <2> QED BY <2>2 DEF Lists
<1> QED BY <1>1

LEMMA CapSeq ==
  ASSUME NEW s \in Seq(Ids)
  PROVE  /\ Cap(s) \in Seq(Ids)
         /\ Len(Cap(s)) <= Len(s) /\ (Len(s) >= 1 => Len(Cap(s)) >= 1)
         /\ \A k \in 1..Len(Cap(s)) : Cap(s)[k] = s[k]
         /\ Len(s) <= BranchLimit => Cap(s) = s
<1>1. BranchLimit \in Nat \ {0}
  BY JournalAssumption
<1> DEFINE m == IF Len(s) < BranchLimit THEN Len(s) ELSE BranchLimit
<1>2. m \in Nat /\ m <= Len(s) /\ (Len(s) >= 1 => m >= 1) /\ Cap(s) = SubSeq(s, 1, m)
  BY <1>1 DEF Cap
<1> HIDE DEF m
<1>3. Cap(s) \in Seq(Ids) /\ Len(Cap(s)) = m /\ \A k \in 1..m : Cap(s)[k] = s[k]
  BY <1>2
<1>4. ASSUME Len(s) <= BranchLimit PROVE Cap(s) = s
  <2>1. m = Len(s)
    BY <1>4, <1>1 DEF m
  <2> QED BY <2>1, <1>3
<1> QED BY <1>2, <1>3, <1>4

LEMMA AfterSeq ==
  ASSUME NEW next \in [Ids -> SUBSET Ids], NEW latest \in BOOLEAN,
         NEW n \in Nat \ {0}, NEW s \in Seq(Ids)
  PROVE  After(n, s, next, latest) \in Seq(Ids)
<1>1. CASE n > Len(s)
  BY <1>1 DEF After
<1>2. CASE ~(n > Len(s))
  <2>1. n \in 1..Len(s) /\ s[n] \in Ids
    BY <1>2
  <2> DEFINE S == next[s[n]] \ ToSet(s)
  <2>2. S \in SUBSET Ids
    BY <2>1
  <2> HIDE DEF S
  <2>3. s \o Listed(S, latest) \in Seq(Ids)
    <3>1. Listed(S, latest) \in Seq(Ids)
      BY <2>2, ListedSeq
    <3> QED BY <3>1
  <2> QED BY <2>3, <1>2, CapSeq DEF After, S
<1> QED BY <1>1, <1>2

LEMMA WalkUnfolds ==
  ASSUME NEW i \in Ids, NEW next \in [Ids -> SUBSET Ids], NEW latest \in BOOLEAN
  PROVE  /\ Steps(i, next, latest) \in [Nat -> Seq(Ids)]
         /\ Steps(i, next, latest)[0] = <<i>>
         /\ \A n \in Nat : Steps(i, next, latest)[n + 1]
                             = After(n + 1, Steps(i, next, latest)[n], next, latest)
<1> DEFINE F == [p \in Nat \X Seq(Ids) |-> IF p[1] = 0 THEN p[2]
                                           ELSE After(p[1], p[2], next, latest)]
<1>1. F \in [Nat \X Seq(Ids) -> Seq(Ids)]
  BY AfterSeq
<1>2. <<i>> \in Seq(Ids)
  OBVIOUS
<1> DEFINE Is(w) == w = [n \in Nat |-> IF n = 0 THEN <<i>> ELSE After(n, w[n - 1], next, latest)]
<1>3. \E w \in [Nat -> Seq(Ids)] : Is(w)
  <2>1. PICK w \in [Nat -> Seq(Ids)] :
               w[0] = <<i>> /\ \A n \in Nat : w[n + 1] = F[<<n + 1, w[n]>>]
    <3> HIDE DEF F
    <3> DEFINE V == Seq(Ids)
               v0 == <<i>>
    <3>1. v0 \in V /\ F \in [Nat \X V -> V]
      BY <1>1, <1>2
    <3> HIDE DEF V, v0
    <3>2. \E f \in [Nat -> V] : Iterates(f, v0, F)
      BY ONLY <3>1, RecursiveFcn
    <3> QED BY <3>2 DEF V, v0, Iterates
  <2>2. ASSUME NEW n \in Nat
        PROVE  w[n] = IF n = 0 THEN <<i>> ELSE After(n, w[n - 1], next, latest)
    <3>1. CASE n = 0
      BY <2>1, <3>1
    <3>2. CASE n # 0
      <4>1. n - 1 \in Nat /\ (n - 1) + 1 = n /\ <<n, w[n - 1]>> \in Nat \X Seq(Ids)
        BY <3>2
      <4>2. w[n] = F[<<n, w[n - 1]>>]
        <5> HIDE DEF F
        <5> QED BY <4>1, <2>1
      <4> QED BY <4>1, <4>2, <3>2
    <3> QED BY <3>1, <3>2
  <2> HIDE DEF F
  <2>4. Is(w)
    BY <2>2
  <2> QED BY <2>4
<1> DEFINE w == Steps(i, next, latest)
<1>4. w = CHOOSE v : Is(v)
  BY DEF Steps, After
<1> HIDE DEF w
<1>5. Is(w)
  BY <1>3, <1>4
<1>6. w[0] = <<i>> /\ \A n \in Nat : w[n + 1] = After(n + 1, w[n], next, latest)
  BY <1>5
<1> DEFINE T == {n \in Nat : w[n] \in Seq(Ids)}
<1>7. 0 \in T /\ \A n \in T : n + 1 \in T
  <2>1. 0 \in T
    BY <1>6, <1>2
  <2>2. ASSUME NEW n \in T PROVE n + 1 \in T
    <3>1. n \in Nat /\ n + 1 \in Nat \ {0} /\ w[n] \in Seq(Ids)
      OBVIOUS
    <3>2. After(n + 1, w[n], next, latest) \in Seq(Ids)
      BY <3>1, AfterSeq
    <3> QED BY <3>1, <3>2, <1>6
  <2> QED BY <2>1, <2>2
<1>8. T = Nat
  <2> HIDE DEF T
  <2>1. T \in SUBSET Nat
    BY DEF T
  <2> QED BY <2>1, <1>7, NatSetInduction
<1>9. w \in [Nat -> Seq(Ids)]
  <2>1. \A n \in Nat : w[n] \in Seq(Ids)
    BY <1>8
  <2>2. w = [n \in Nat |-> w[n]]
    BY <1>5
  <2> QED BY <2>1, <2>2
<1> QED BY <1>6, <1>9 DEF w

(* The walk comes upon its entry y from the entry k, the first it has that *)
(* leads there.                                                            *)
Finds(s, next, k, y) ==
    /\ k \in 1..(y - 1)
    /\ s[y] \in next[s[k]]
    /\ \A m \in 1..(k - 1) : s[y] \notin next[s[m]]

(* s is what a walk from i, breadth first along next, has seen when it has *)
(* looked at n of its entries: each once, found from an earlier one, those *)
(* found from the same one in order.                                       *)
Walked(s, n, i, next, latest) ==
    /\ s \in Seq(Ids) /\ Len(s) >= 1 /\ s[1] = i
    /\ \A j, k \in 1..Len(s) : j # k => s[j] # s[k]
    /\ \A y \in 2..Len(s) : \E k \in 1..n : Finds(s, next, k, y)
    /\ \A x, y \in 2..Len(s), k, l \in 1..Len(s) :
          x < y /\ Finds(s, next, k, x) /\ Finds(s, next, l, y)
             => k < l \/ (k = l /\ Before(s[x], s[y], latest))
    /\ \A k \in 1..n : k <= Len(s) => next[s[k]] \subseteq ToSet(s)

LEMMA DistinctShort ==
  ASSUME NEW s \in Seq(Ids), \A j, k \in 1..Len(s) : j # k => s[j] # s[k]
  PROVE  Len(s) <= MaxEntries
<1>1. MaxEntries \in Nat /\ Ids = 1..MaxEntries
  BY JournalAssumption DEF Ids
<1>2. IsFiniteSet(Ids) /\ Cardinality(Ids) = MaxEntries
  BY <1>1, FS_Interval
<1>3. IsFiniteSet(1..Len(s)) /\ Cardinality(1..Len(s)) = Len(s)
  <2> DEFINE m == Len(s)
  <2>2. m \in Nat
    OBVIOUS
  <2> HIDE DEF m
  <2>3. IsFiniteSet(1..m) /\ Cardinality(1..m) = m
    BY <2>2, FS_Interval
  <2> QED BY <2>3 DEF m
<1>4. s \in [1..Len(s) -> Ids]
  OBVIOUS
<1>5. SUFFICES ASSUME Cardinality(Ids) < Cardinality(1..Len(s)) PROVE FALSE
  BY <1>1, <1>2, <1>3
<1>6. \E j, k \in 1..Len(s) : j # k /\ s[j] = s[k]
  <2>1. IsFiniteSet(Ids) /\ IsFiniteSet(1..Len(s))
    BY <1>2, <1>3
  <2> QED BY ONLY <1>4, <1>5, <2>1, FS_PigeonHole, ZenonT(30)
<1> QED BY <1>6

LEMMA AfterWalked ==
  ASSUME MaxEntries <= BranchLimit,
         NEW i \in Ids, NEW next \in [Ids -> SUBSET Ids], NEW latest \in BOOLEAN,
         NEW n \in Nat, NEW s, Walked(s, n, i, next, latest)
  PROVE  Walked(After(n + 1, s, next, latest), n + 1, i, next, latest)
<1>1. CASE n + 1 > Len(s)
  <2>1. After(n + 1, s, next, latest) = s
    BY <1>1 DEF After
  <2>2. Walked(s, n + 1, i, next, latest)
    <3>1. s \in Seq(Ids) /\ Len(s) \in Nat
      BY DEF Walked
    <3>2. \A k \in 1..(n + 1) : k <= Len(s) => k \in 1..n
      BY <1>1, <3>1
    <3>3. 1..n \subseteq 1..(n + 1)
      OBVIOUS
    <3> QED BY <3>1, <3>2, <3>3 DEF Walked
  <2> QED BY <2>1, <2>2
<1>2. CASE ~(n + 1 > Len(s))
  <2>1. s \in Seq(Ids) /\ Len(s) \in Nat /\ n + 1 \in 1..Len(s) /\ s[n + 1] \in Ids
    BY <1>2 DEF Walked
  <2> DEFINE S == next[s[n + 1]] \ ToSet(s)
             L == Listed(S, latest)
             m == Len(L)
             t == s \o L
  <2>2. S \in SUBSET Ids /\ S \subseteq next[s[n + 1]]
    BY <2>1
  <2>3. /\ L \in Seq(Ids) /\ m \in Nat /\ L \in [1..m -> S]
        /\ \A j, k \in 1..m : j # k => L[j] # L[k]
        /\ \A j, k \in 1..m : j < k => Before(L[j], L[k], latest)
        /\ \A x \in S : \E k \in 1..m : L[k] = x
    <3>1. MaxEntries \in Nat /\ Ids = 1..MaxEntries
      BY JournalAssumption DEF Ids
    <3> HIDE DEF S
    <3>2. Lists(L, S, latest)
      <4>1. S \in SUBSET (1..MaxEntries)
        BY <2>2, <3>1
      <4> QED BY <4>1, <3>1, ListedWhole
    <3>3. L \in Seq(Ids) /\ Len(L) = Cardinality(S) /\ Cardinality(S) \in Nat
      BY <2>2, ListedSeq
    <3> HIDE DEF L
    <3> QED BY <3>2, <3>3 DEF Lists
  <2> HIDE DEF L
  <2>4. \A y \in 1..m : /\ L[y] \in next[s[n + 1]]
                         /\ \A k \in 1..Len(s) : L[y] # s[k]
    <3>1. \A k \in 1..Len(s) : s[k] \in ToSet(s)
      BY <2>1 DEF ToSet
    <3> QED BY <2>3, <3>1
  <2> HIDE DEF S
  <2>5. /\ t \in Seq(Ids) /\ Len(t) = Len(s) + m
        /\ \A k \in 1..Len(s) : t[k] = s[k]
        /\ \A k \in 1..m : t[Len(s) + k] = L[k]
    BY <2>1, <2>3
  <2> HIDE DEF t, m
  <2>6. \A y \in (Len(s) + 1)..Len(t) :
           /\ y - Len(s) \in 1..m /\ t[y] = L[y - Len(s)]
    <3>1. SUFFICES ASSUME NEW y \in (Len(s) + 1)..Len(t)
                   PROVE  y - Len(s) \in 1..m /\ t[y] = L[y - Len(s)]
      OBVIOUS
    <3>2. y - Len(s) \in 1..m /\ Len(s) + (y - Len(s)) = y
      BY <2>1, <2>3, <2>5
    <3> QED BY <3>2, <2>5
  <2>7. \A j, k \in 1..Len(t) : j # k => t[j] # t[k]
    <3>1. \A j, k \in 1..Len(t) : j < k => t[j] # t[k]
      <4>1. SUFFICES ASSUME NEW j \in 1..Len(t), NEW k \in 1..Len(t), j < k
                     PROVE  t[j] # t[k]
        OBVIOUS
      <4>2. CASE k <= Len(s)
        <5>1. j \in 1..Len(s) /\ k \in 1..Len(s) /\ j # k
          BY <4>1, <4>2, <2>1, <2>5
        <5>2. s[j] # s[k]
          BY <5>1 DEF Walked
        <5> QED BY <5>1, <5>2, <2>5
      <4>3. CASE k > Len(s)
        <5>1. k \in (Len(s) + 1)..Len(t)
          BY <4>3, <2>1, <2>5, <2>3
        <5>2. CASE j <= Len(s)
          <6>1. j \in 1..Len(s)
            BY <5>2, <2>1
          <6> QED BY <6>1, <5>1, <2>4, <2>5, <2>6
        <5>3. CASE j > Len(s)
          <6>1. j \in (Len(s) + 1)..Len(t) /\ j - Len(s) # k - Len(s)
            BY <5>3, <2>1, <2>5, <2>3, <4>1
          <6> QED BY <6>1, <5>1, <2>3, <2>6
        <5> QED BY <5>2, <5>3, <2>1
      <4> QED BY <4>2, <4>3, <2>1
    <3>2. Len(t) \in Nat
      BY <2>5
    <3>3. SUFFICES ASSUME NEW j \in 1..Len(t), NEW k \in 1..Len(t), j # k
                   PROVE  t[j] # t[k]
      OBVIOUS
    <3>4. j < k \/ k < j
      BY <3>2, <3>3
    <3> QED BY <3>1, <3>4
  <2>8. After(n + 1, s, next, latest) = t
    <3>1. Len(t) <= MaxEntries
      BY <2>5, <2>7, DistinctShort
    <3>2. Len(t) <= BranchLimit
      BY <3>1, <2>5, JournalAssumption
    <3>3. Cap(t) = t
      BY <2>5, <3>2, CapSeq
    <3> QED BY <3>3, <1>2 DEF After, t, L, S
  <2>9. \A k, y \in 1..Len(s) : Finds(t, next, k, y) <=> Finds(s, next, k, y)
    <3>1. SUFFICES ASSUME NEW k \in 1..Len(s), NEW y \in 1..Len(s)
                   PROVE  Finds(t, next, k, y) <=> Finds(s, next, k, y)
      OBVIOUS
    <3>2. t[y] = s[y] /\ t[k] = s[k] /\ \A x \in 1..(k - 1) : t[x] = s[x]
      BY <2>1, <2>5
    <3> QED BY <3>2 DEF Finds
  <2>10. \A y \in (Len(s) + 1)..Len(t), k \in 1..Len(t) : Finds(t, next, k, y) <=> k = n + 1
    <3>1. SUFFICES ASSUME NEW y \in (Len(s) + 1)..Len(t), NEW k \in 1..Len(t)
                   PROVE  Finds(t, next, k, y) <=> k = n + 1
      OBVIOUS
    <3>2. t[y] \in next[t[n + 1]] /\ n + 1 \in 1..(y - 1)
      <4>1. y - Len(s) \in 1..m /\ t[y] = L[y - Len(s)]
        BY <2>6
      <4>2. t[n + 1] = s[n + 1]
        BY <2>1, <2>5
      <4> QED BY <4>1, <4>2, <2>1, <2>4, <2>5, <2>3
    <3>3. \A x \in 1..n : t[y] \notin next[t[x]]
      <4>1. SUFFICES ASSUME NEW x \in 1..n PROVE t[y] \notin next[t[x]]
        OBVIOUS
      <4>2. x \in 1..Len(s) /\ x <= Len(s)
        BY <2>1
      <4>3. next[s[x]] \subseteq ToSet(s)
        BY <4>2 DEF Walked
      <4>4. \A z \in 1..Len(s) : t[y] # s[z]
        BY <2>4, <2>6
      <4>5. t[y] \notin ToSet(s)
        BY <4>4, <2>1 DEF ToSet
      <4> QED BY <4>2, <4>3, <4>5, <2>5
    <3>4. CASE k = n + 1
      BY <3>2, <3>3, <3>4 DEF Finds
    <3>5. CASE k < n + 1
      <4>1. k \in 1..n
        BY <3>5
      <4> QED BY <4>1, <3>3, <3>5 DEF Finds
    <3>6. CASE k > n + 1
      <4>1. n + 1 \in 1..(k - 1)
        BY <3>6
      <4> QED BY <4>1, <3>2, <3>6 DEF Finds
    <3> QED BY <3>4, <3>5, <3>6, <2>5
  <2>11. \A y \in 2..Len(t) : \E k \in 1..(n + 1) : Finds(t, next, k, y)
    <3>1. SUFFICES ASSUME NEW y \in 2..Len(t)
                   PROVE  \E k \in 1..(n + 1) : Finds(t, next, k, y)
      OBVIOUS
    <3>2. CASE y <= Len(s)
      <4>1. y \in 2..Len(s) /\ y \in 1..Len(s)
        BY <3>2, <2>1
      <4>2. PICK k \in 1..n : Finds(s, next, k, y)
        BY <4>1 DEF Walked
      <4>3. k \in 1..Len(s) /\ k \in 1..(n + 1)
        BY <2>1
      <4> QED BY <4>1, <4>2, <4>3, <2>9
    <3>3. CASE y > Len(s)
      <4>1. y \in (Len(s) + 1)..Len(t) /\ n + 1 \in 1..Len(t) /\ n + 1 \in 1..(n + 1)
        BY <3>3, <2>1, <2>5, <2>3
      <4> QED BY <4>1, <2>10
    <3> QED BY <3>2, <3>3, <2>1
  <2>12. ASSUME NEW x \in 2..Len(t), NEW y \in 2..Len(t),
                NEW k \in 1..Len(t), NEW l \in 1..Len(t),
                x < y, Finds(t, next, k, x), Finds(t, next, l, y)
         PROVE  k < l \/ (k = l /\ Before(t[x], t[y], latest))
    <3>1. k < x /\ l < y /\ Len(s) \in Nat /\ Len(t) \in Nat
      BY <2>12, <2>1, <2>5 DEF Finds
    <3>2. CASE y <= Len(s)
      <4>1. x \in 2..Len(s) /\ y \in 2..Len(s) /\ k \in 1..Len(s) /\ l \in 1..Len(s)
        BY <3>1, <3>2, <2>12
      <4>2. Finds(s, next, k, x) /\ Finds(s, next, l, y)
        <5>1. x \in 1..Len(s) /\ y \in 1..Len(s)
          BY <4>1
        <5> QED BY <4>1, <5>1, <2>9, <2>12
      <4>3. k < l \/ (k = l /\ Before(s[x], s[y], latest))
        BY <4>1, <4>2, <2>12 DEF Walked
      <4>4. t[x] = s[x] /\ t[y] = s[y]
        BY <4>1, <2>5
      <4> QED BY <4>3, <4>4
    <3>3. CASE y > Len(s) /\ x <= Len(s)
      <4>1. x \in 2..Len(s) /\ x \in 1..Len(s) /\ k \in 1..Len(s) /\ y \in (Len(s) + 1)..Len(t)
        BY <3>1, <3>3, <2>12
      <4>2. Finds(s, next, k, x) /\ l = n + 1
        BY <4>1, <2>9, <2>10, <2>12
      <4>3. PICK z \in 1..n : Finds(s, next, z, x)
        BY <4>1 DEF Walked
      <4>4. k <= z
        <5>1. SUFFICES ASSUME z < k PROVE FALSE
          BY <4>1
        <5>2. z \in 1..(k - 1)
          BY <5>1, <4>1
        <5> QED BY <5>2, <4>2, <4>3 DEF Finds
      <4> QED BY <4>2, <4>4, <4>1
    <3>4. CASE x > Len(s)
      <4>1. x \in (Len(s) + 1)..Len(t) /\ y \in (Len(s) + 1)..Len(t)
        BY <3>1, <3>4, <2>12
      <4>2. k = n + 1 /\ l = n + 1
        BY <4>1, <2>10, <2>12
      <4>3. x - Len(s) \in 1..m /\ y - Len(s) \in 1..m /\ x - Len(s) < y - Len(s)
        BY <4>1, <2>6, <2>12, <3>1
      <4>4. Before(t[x], t[y], latest)
        BY <4>1, <4>3, <2>3, <2>6
      <4> QED BY <4>2, <4>4
    <3> QED BY <3>1, <3>2, <3>3, <3>4
  <2>13. ASSUME NEW k \in 1..(n + 1), k <= Len(t) PROVE next[t[k]] \subseteq ToSet(t)
    <3>1. k \in 1..Len(s) /\ t[k] = s[k] /\ k <= Len(s) /\ s[k] \in Ids
      BY <2>1, <2>5
    <3>2. \A z \in 1..Len(t) : t[z] \in ToSet(t)
      BY <2>5 DEF ToSet
    <3>3. ToSet(s) \subseteq ToSet(t)
      <4>1. SUFFICES ASSUME NEW z \in 1..Len(s) PROVE s[z] \in ToSet(t)
        BY <2>1 DEF ToSet
      <4>2. z \in 1..Len(t) /\ t[z] = s[z]
        BY <2>5, <2>1, <2>3
      <4> QED BY <4>2, <3>2
    <3>4. S \subseteq ToSet(t)
      <4>1. SUFFICES ASSUME NEW x \in S PROVE x \in ToSet(t)
        OBVIOUS
      <4>2. PICK z \in 1..m : L[z] = x
        BY <2>3
      <4>3. Len(s) + z \in 1..Len(t) /\ t[Len(s) + z] = x
        BY <4>2, <2>5, <2>1, <2>3
      <4> QED BY <4>3, <3>2
    <3>5. CASE k = n + 1
      <4>1. next[s[k]] \subseteq S \cup ToSet(s)
        BY <3>5 DEF S
      <4> QED BY <4>1, <3>1, <3>3, <3>4
    <3>6. CASE k # n + 1
      <4>1. k \in 1..n
        BY <3>6
      <4>2. next[s[k]] \subseteq ToSet(s)
        BY <4>1, <3>1 DEF Walked
      <4> QED BY <4>2, <3>1, <3>3
    <3> QED BY <3>5, <3>6
  <2>14. Len(t) >= 1 /\ t[1] = i
    <3>1. Len(s) >= 1 /\ s[1] = i
      BY DEF Walked
    <3> QED BY <3>1, <2>1, <2>3, <2>5
  <2>15. Walked(t, n + 1, i, next, latest)
    BY <2>5, <2>7, <2>11, <2>12, <2>13, <2>14 DEF Walked
  <2> QED BY <2>8, <2>15
<1>3. n + 1 \in Nat /\ Len(s) \in Nat
  BY DEF Walked
<1> QED BY <1>1, <1>2

(* A walk that the limit does not cut off sees what it leads to.           *)
LEMMA WalkWhole ==
  ASSUME MaxEntries <= BranchLimit,
         NEW i \in Ids, NEW next \in [Ids -> SUBSET Ids], NEW latest \in BOOLEAN
  PROVE  Walked(Walk(i, next, latest), Len(Walk(i, next, latest)), i, next, latest)
<1> DEFINE w == Steps(i, next, latest)
           T == {n \in Nat : Walked(w[n], n, i, next, latest)}
<1>1. /\ w \in [Nat -> Seq(Ids)] /\ w[0] = <<i>>
      /\ \A n \in Nat : w[n + 1] = After(n + 1, w[n], next, latest)
  BY WalkUnfolds
<1> HIDE DEF w
<1>2. 0 \in T
  <2>1. Walked(<<i>>, 0, i, next, latest)
    BY DEF Walked
  <2> QED BY <2>1, <1>1
<1>3. ASSUME NEW n \in T PROVE n + 1 \in T
  <2>1. n \in Nat /\ Walked(w[n], n, i, next, latest)
    OBVIOUS
  <2>2. Walked(After(n + 1, w[n], next, latest), n + 1, i, next, latest)
    BY <2>1, AfterWalked
  <2> QED BY <2>1, <2>2, <1>1
<1>4. T = Nat
  <2> HIDE DEF T
  <2>1. T \in SUBSET Nat
    BY DEF T
  <2> QED BY <2>1, <1>2, <1>3, NatSetInduction
<1>5. MaxEntries \in Nat
  BY JournalAssumption
<1> DEFINE s == w[MaxEntries]
<1>6. Walked(s, MaxEntries, i, next, latest)
  BY <1>4, <1>5
<1> HIDE DEF s
<1>7. Len(s) <= MaxEntries /\ Len(s) \in Nat
  <2>1. s \in Seq(Ids) /\ \A j, k \in 1..Len(s) : j # k => s[j] # s[k]
    BY <1>6 DEF Walked
  <2> QED BY <2>1, DistinctShort
<1>8. Walked(s, Len(s), i, next, latest)
  <2>1. \A y \in 2..Len(s) : \E k \in 1..Len(s) : Finds(s, next, k, y)
    <3>1. SUFFICES ASSUME NEW y \in 2..Len(s)
                   PROVE  \E k \in 1..Len(s) : Finds(s, next, k, y)
      OBVIOUS
    <3>2. PICK k \in 1..MaxEntries : Finds(s, next, k, y)
      BY <1>6 DEF Walked
    <3>3. k \in 1..Len(s)
      BY <3>2, <1>7 DEF Finds
    <3> QED BY <3>2, <3>3
  <2>2. \A k \in 1..Len(s) : k \in 1..MaxEntries /\ k <= Len(s)
    BY <1>5, <1>7
  <2> QED BY <1>6, <2>1, <2>2 DEF Walked
<1> QED BY <1>8 DEF s, w, Walk

(* What a walk sees, cut off or not, it starts from or comes upon.         *)
LEMMA WalkMembers ==
  ASSUME NEW i \in Ids, NEW next \in [Ids -> SUBSET Ids], NEW latest \in BOOLEAN
  PROVE  /\ Walk(i, next, latest) \in Seq(Ids)
         /\ Len(Walk(i, next, latest)) >= 1 /\ Walk(i, next, latest)[1] = i
         /\ \A x \in ToSet(Walk(i, next, latest)) : x = i \/ \E z \in Ids : x \in next[z]
<1> DEFINE w == Steps(i, next, latest)
           Come(s) == /\ Len(s) >= 1 /\ s[1] = i
                      /\ \A y \in 1..Len(s) : s[y] = i \/ \E z \in Ids : s[y] \in next[z]
           T == {n \in Nat : Come(w[n])}
<1>1. /\ w \in [Nat -> Seq(Ids)] /\ w[0] = <<i>>
      /\ \A n \in Nat : w[n + 1] = After(n + 1, w[n], next, latest)
  BY WalkUnfolds
<1> HIDE DEF w
<1>2. 0 \in T
  <2>1. Come(<<i>>)
    OBVIOUS
  <2> HIDE DEF Come
  <2> QED BY <2>1, <1>1
<1>3. ASSUME NEW n \in T PROVE n + 1 \in T
  <2> DEFINE s == w[n]
  <2>1. n \in Nat /\ s \in Seq(Ids) /\ Come(s)
    BY <1>1
  <2> HIDE DEF s
  <2>2. CASE n + 1 > Len(s)
    <3>1. w[n + 1] = s
      BY <1>1, <2>1, <2>2 DEF After, s
    <3> QED BY <3>1, <2>1
  <2>3. CASE ~(n + 1 > Len(s))
    <3> DEFINE S == next[s[n + 1]] \ ToSet(s)
               L == Listed(S, latest)
               t == s \o L
    <3>1. Len(s) \in Nat /\ n + 1 \in 1..Len(s) /\ s[n + 1] \in Ids /\ S \in SUBSET Ids
      BY <2>1, <2>3
    <3>2. L \in Seq(S) /\ L \in Seq(Ids) /\ Len(L) \in Nat
      <4> HIDE DEF S
      <4>1. Listed(S, latest) \in Seq(S) /\ Listed(S, latest) \in Seq(Ids)
        BY <3>1, ListedSeq
      <4> QED BY <4>1
    <3> HIDE DEF L
    <3>3. /\ t \in Seq(Ids) /\ Len(t) = Len(s) + Len(L)
          /\ \A k \in 1..Len(s) : t[k] = s[k]
          /\ \A k \in 1..Len(L) : t[Len(s) + k] = L[k]
      BY <2>1, <3>2
    <3> HIDE DEF t
    <3>4. Come(t)
      <4>1. ASSUME NEW y \in 1..Len(t) PROVE t[y] = i \/ \E z \in Ids : t[y] \in next[z]
        <5>1. CASE y <= Len(s)
          <6>1. y \in 1..Len(s)
            BY <5>1, <3>1
          <6> QED BY <6>1, <3>3, <2>1
        <5>2. CASE y > Len(s)
          <6>1. y - Len(s) \in 1..Len(L) /\ Len(s) + (y - Len(s)) = y
            BY <5>2, <3>1, <3>2, <3>3
          <6>2. t[y] = L[y - Len(s)] /\ L[y - Len(s)] \in S
            <7>1. t[y] = L[y - Len(s)]
              BY <6>1, <3>3
            <7> HIDE DEF S
            <7> QED BY <7>1, <6>1, <3>2
          <6> QED BY <6>2, <3>1
        <5> QED BY <5>1, <5>2, <3>1
      <4>2. Len(t) >= 1 /\ t[1] = i
        BY <2>1, <3>1, <3>2, <3>3
      <4> QED BY <4>1, <4>2
    <3>5. w[n + 1] = Cap(t)
      BY <1>1, <2>1, <2>3 DEF After, s, t, L
    <3>6. /\ Cap(t) \in Seq(Ids) /\ Len(Cap(t)) <= Len(t) /\ Len(Cap(t)) >= 1
          /\ \A k \in 1..Len(Cap(t)) : Cap(t)[k] = t[k]
      BY <3>3, <3>4, CapSeq
    <3> DEFINE c == Cap(t)
    <3> HIDE DEF c
    <3>7. Come(c)
      <4>0. c \in Seq(Ids) /\ Len(c) \in Nat /\ Len(t) \in Nat
        BY <3>6, <3>3 DEF c
      <4>1. \A k \in 1..Len(c) : c[k] = t[k] /\ k \in 1..Len(t)
        BY <3>6, <4>0 DEF c
      <4>2. Len(c) >= 1 /\ c[1] = i
        BY <4>0, <4>1, <3>4, <3>6 DEF c
      <4> QED BY <4>1, <4>2, <3>4
    <3> QED BY <3>5, <3>7, <2>1 DEF c
  <2>4. Len(s) \in Nat
    BY <2>1
  <2> QED BY <2>1, <2>2, <2>3, <2>4
<1>4. T = Nat
  <2> HIDE DEF T
  <2>1. T \in SUBSET Nat
    BY DEF T
  <2> QED BY <2>1, <1>2, <1>3, NatSetInduction
<1>5. MaxEntries \in Nat
  BY JournalAssumption
<1>6. Come(w[MaxEntries]) /\ w[MaxEntries] \in Seq(Ids)
  BY <1>1, <1>4, <1>5
<1>7. \A x \in ToSet(w[MaxEntries]) : x = i \/ \E z \in Ids : x \in next[z]
  BY <1>6 DEF ToSet
<1> QED BY <1>6, <1>7 DEF w, Walk

LEMMA Least ==
  ASSUME NEW S \in SUBSET Nat, S # {}
  PROVE  /\ Min(S) \in S /\ \A x \in S : Min(S) <= x
<1>1. \E m \in S : \A x \in S : m <= x
  <2>1. PICK m \in S : \A x \in S : ~(<<x, m>> \in OpToRel(<, Nat))
    BY NatLessThanWellFounded, WFMin, ZenonT(30)
  <2>2. ASSUME NEW x \in S PROVE m <= x
    <3>1. SUFFICES ASSUME x < m PROVE FALSE
      OBVIOUS
    <3>2. <<x, m>> \in {p \in Nat \X Nat : p[1] < p[2]}
      BY <3>1
    <3> QED BY <2>1, <3>2, Zenon DEF OpToRel
  <2> QED BY <2>2
<1> QED BY <1>1 DEF Min

-----------------------------------------------------------------------------
(* The todo an entry hangs from.                                           *)

ParentsOf == [j \in Ids |-> Parents(j)]
BranchOf(root) == [j \in Ids |-> {c \in Children(j) : ~IsTodo(c) /\ BranchRoot(c) = root}]

LEMMA LinkFunctions ==
  /\ ParentsOf \in [Ids -> SUBSET Ids]
  /\ \A root : BranchOf(root) \in [Ids -> SUBSET Ids]
  /\ \A i : Upstream(i) = Walk(i, ParentsOf, TRUE)
  /\ \A root : BranchIds(root) = ToSet(Walk(root, BranchOf(root), FALSE))
BY DEF ParentsOf, BranchOf, Parents, Children, Upstream, BranchIds

(* k is the first place of a todo in the walk u. *)
FirstTodo(u, k) ==
    k \in 1..Len(u) /\ IsTodo(u[k]) /\ \A m \in 1..(k - 1) : ~IsTodo(u[m])

LEMMA UpstreamSeq ==
  ASSUME NEW i \in Ids
  PROVE  Upstream(i) \in Seq(Ids) /\ Len(Upstream(i)) >= 1 /\ Upstream(i)[1] = i
<1>1. ParentsOf \in [Ids -> SUBSET Ids] /\ Upstream(i) = Walk(i, ParentsOf, TRUE)
  BY LinkFunctions
<1> QED BY <1>1, WalkMembers

LEMMA RootOfTodo ==
  ASSUME NEW i \in Ids, NEW k, FirstTodo(Upstream(i), k)
  PROVE  BranchRoot(i) = Upstream(i)[k]
<1> DEFINE u == Upstream(i)
           S == {m \in DOMAIN u : IsTodo(u[m])}
<1>1. u \in Seq(Ids)
  BY UpstreamSeq
<1>0. BranchRoot(i) = IF S = {} THEN NoId ELSE u[Min(S)]
  BY DEF BranchRoot
<1> HIDE DEF u
<1>2. S \in SUBSET Nat /\ k \in S /\ \A m \in S : k <= m
  <2>1. FirstTodo(u, k)
    BY DEF u
  <2> QED BY <1>1, <2>1 DEF FirstTodo
<1> HIDE DEF S
<1>3. Min(S) \in S /\ Min(S) <= k
  BY <1>2, Least
<1>4. Min(S) = k
  <2>1. Min(S) \in Nat /\ k \in Nat /\ k <= Min(S)
    BY <1>2, <1>3
  <2> QED BY <2>1, <1>3
<1> QED BY <1>0, <1>2, <1>4 DEF u

LEMMA TodoOfRoot ==
  ASSUME NEW i \in Ids, BranchRoot(i) # NoId
  PROVE  \E k \in 1..Len(Upstream(i)) :
            FirstTodo(Upstream(i), k) /\ BranchRoot(i) = Upstream(i)[k]
<1> DEFINE u == Upstream(i)
           S == {m \in DOMAIN u : IsTodo(u[m])}
<1>1. u \in Seq(Ids)
  BY UpstreamSeq
<1>2. BranchRoot(i) = u[Min(S)] /\ S # {}
  BY DEF BranchRoot
<1> HIDE DEF u
<1>3. S \in SUBSET Nat
  BY <1>1
<1>4. Min(S) \in S /\ \A x \in S : Min(S) <= x
  <2> HIDE DEF S
  <2> QED BY <1>2, <1>3, Least
<1> DEFINE k == Min(S)
<1>5. k \in 1..Len(u) /\ IsTodo(u[k])
  BY <1>1, <1>4
<1>6. \A m \in 1..(k - 1) : ~IsTodo(u[m])
  <2>1. SUFFICES ASSUME NEW m \in 1..(k - 1), IsTodo(u[m]) PROVE FALSE
    OBVIOUS
  <2>2. k \in Nat /\ k <= Len(u) /\ Len(u) \in Nat
    BY <1>1, <1>5
  <2> HIDE DEF k
  <2>3. m \in 1..Len(u) /\ m < k
    BY <2>2
  <2>4. m \in S
    BY <2>1, <2>3, <1>1
  <2>5. k <= m
    BY <2>4, <1>4 DEF k
  <2> QED BY <2>2, <2>3, <2>5
<1> HIDE DEF k
<1>7. FirstTodo(u, k)
  BY <1>5, <1>6 DEF FirstTodo
<1> QED BY <1>2, <1>5, <1>7 DEF u, k

LEMMA TodoIsRoot ==
  ASSUME NEW i \in Ids, IsTodo(i)
  PROVE  BranchRoot(i) = i
<1>1. FirstTodo(Upstream(i), 1)
  BY UpstreamSeq DEF FirstTodo
<1> QED BY <1>1, UpstreamSeq, RootOfTodo

(* A branch has its root and entries that hang from it. *)
LEMMA BranchHangs ==
  ASSUME NEW a \in Ids, NEW x \in BranchIds(a)
  PROVE  x \in Ids /\ (x # a => ~IsTodo(x) /\ BranchRoot(x) = a)
<1>1. BranchOf(a) \in [Ids -> SUBSET Ids] /\ x \in ToSet(Walk(a, BranchOf(a), FALSE))
  BY LinkFunctions
<1> DEFINE b == BranchOf(a)
           w == Walk(a, b, FALSE)
<1>2. w \in Seq(Ids) /\ \A y \in ToSet(w) : y = a \/ \E z \in Ids : y \in b[z]
  <2> HIDE DEF b
  <2>1. FALSE \in BOOLEAN /\ b \in [Ids -> SUBSET Ids]
    BY <1>1 DEF b
  <2> QED BY <2>1, WalkMembers
<1>3. x \in Ids
  BY <1>1, <1>2 DEF ToSet
<1>4. ASSUME x # a PROVE \E z \in Ids : x \in b[z]
  BY <1>1, <1>2, <1>4
<1> QED BY <1>3, <1>4 DEF BranchOf

-----------------------------------------------------------------------------
(* What a walk upstream finds is found upstream of it as well.             *)

(* A walk comes upon what an entry of it leads to from that entry or from  *)
(* an earlier one.                                                         *)
LEMMA FoundBy ==
  ASSUME NEW next, NEW i, NEW latest, NEW u, Walked(u, Len(u), i, next, latest),
         NEW x \in 1..Len(u), NEW y \in 2..Len(u), u[y] \in next[u[x]]
  PROVE  \E k \in 1..x : Finds(u, next, k, y)
<1>1. PICK k \in 1..Len(u) : Finds(u, next, k, y)
  BY DEF Walked
<1>2. k \in Nat /\ x \in Nat
  BY DEF Walked
<1>3. k <= x
  <2>1. SUFFICES ASSUME x < k PROVE FALSE
    BY <1>2
  <2>2. x \in 1..(k - 1)
    BY <2>1, <1>2
  <2> QED BY <2>2, <1>1 DEF Finds
<1>4. k \in 1..x
  BY <1>2, <1>3
<1> QED BY <1>1, <1>4

(* The walk u has x before its entry y. *)
HasBefore(u, y, x) == \E w \in 1..(y - 1) : x = u[w]

(* What the walk u comes upon before its entry y.                          *)
LEMMA FoundBefore ==
  ASSUME NEW next, NEW i \in Ids, NEW latest \in BOOLEAN, NEW u,
         Walked(u, Len(u), i, next, latest),
         NEW k \in 1..Len(u), NEW y \in 2..Len(u), Finds(u, next, k, y),
         NEW z \in 1..Len(u), NEW v \in next[u[z]],
         z < k \/ (z = k /\ v # u[y] /\ ~Before(u[y], v, latest))
  PROVE  HasBefore(u, y, v)
<1>0. u \in Seq(Ids) /\ Len(u) \in Nat /\ k \in Nat /\ y \in Nat /\ z \in Nat
  BY DEF Walked
<1>1. v \in ToSet(u)
  BY <1>0 DEF Walked
<1>2. PICK w \in 1..Len(u) : v = u[w]
  BY <1>0, <1>1 DEF ToSet
<1>3. ASSUME w >= y PROVE FALSE
  <2>1. w \in 2..Len(u) /\ u[w] \in next[u[z]]
    BY <1>2, <1>3, <1>0
  <2>2. PICK f \in 1..z : Finds(u, next, f, w)
    BY <2>1, FoundBy
  <2>3. f \in 1..Len(u) /\ f \in Nat /\ f <= z
    BY <1>0
  <2>4. CASE w = y
    <3>1. f \notin 1..(k - 1)
      BY <2>2, <2>4 DEF Finds
    <3>2. z = k
      BY <3>1, <2>3, <1>0
    <3> QED BY <3>2, <2>4, <1>2, <1>0
  <2>5. CASE y < w
    <3>1. k < f \/ (k = f /\ Before(u[y], u[w], latest))
      BY <2>1, <2>2, <2>3, <2>5 DEF Walked
    <3>2. k = f /\ z = k
      BY <3>1, <2>3, <1>0
    <3> QED BY <3>1, <3>2, <2>3, <1>0, <1>2
  <2> QED BY <2>4, <2>5, <1>3, <1>0
<1>4. w \in 1..(y - 1)
  BY <1>2, <1>3, <1>0
<1> QED BY <1>2, <1>4 DEF HasBefore

(* The walk v has the entry l of u, and before it nothing that u has not   *)
(* before l.                                                               *)
Meets(u, v, l) ==
    \E r \in 1..Len(v) : /\ v[r] = u[l]
                         /\ \A x \in 1..(r - 1) : HasBefore(u, l, v[x])

LEMMA MeetsOn ==
  ASSUME NEW next, NEW i \in Ids, NEW c \in Ids, NEW latest \in BOOLEAN, NEW u, NEW v,
         Walked(u, Len(u), i, next, latest), Walked(v, Len(v), c, next, latest),
         NEW p \in 1..Len(u), NEW k \in 1..Len(u), NEW l \in 1..Len(u),
         u[p] = c, p <= k, Meets(u, v, k), Finds(u, next, k, l)
  PROVE  Meets(u, v, l)
<1>1. /\ u \in Seq(Ids) /\ Len(u) \in Nat /\ v \in Seq(Ids) /\ Len(v) \in Nat
      /\ p \in Nat /\ k \in Nat /\ l \in Nat /\ v[1] = c
  BY DEF Walked
<1>2. k < l /\ l \in 2..Len(u) /\ u[l] \in next[u[k]]
  BY <1>1 DEF Finds
<1>3. PICK r \in 1..Len(v) : /\ v[r] = u[k]
                             /\ \A x \in 1..(r - 1) : HasBefore(u, k, v[x])
  BY DEF Meets
<1>4. r \in Nat /\ u[l] \in next[v[r]]
  BY <1>1, <1>2, <1>3
<1>5. PICK t \in 1..Len(v) : v[t] = u[l]
  <2>1. u[l] \in ToSet(v)
    BY <1>4, <1>3 DEF Walked
  <2> QED BY <2>1, <1>1 DEF ToSet
<1>6. ASSUME NEW x \in 1..(t - 1) PROVE HasBefore(u, l, v[x])
  <2>1. x \in Nat /\ t \in Nat /\ x < t /\ x \in 1..Len(v) /\ t \in 2..Len(v)
    BY <1>1, <1>6
  <2>2. CASE x = 1
    <3>1. p \in 1..(l - 1) /\ v[x] = u[p]
      BY <1>1, <1>2, <2>2
    <3> QED BY <3>1 DEF HasBefore
  <2>3. CASE x # 1
    <3>0. x \in 2..Len(v)
      BY <2>1, <2>3
    <3>1. PICK q \in 1..r : Finds(v, next, q, t)
      <4>1. v[t] \in next[v[r]]
        BY <1>4, <1>5
      <4> QED BY <4>1, <2>1, FoundBy
    <3>2. PICK h \in 1..Len(v) : Finds(v, next, h, x)
      BY <3>0 DEF Walked
    <3>3. h \in Nat /\ q \in Nat /\ q <= r /\ q \in 1..Len(v)
      BY <1>1, <1>4
    <3>4. h < q \/ (h = q /\ Before(v[x], v[t], latest))
      BY <3>0, <2>1, <3>1, <3>2, <3>3 DEF Walked
    <3>5. v[x] \in next[v[h]]
      BY <3>2 DEF Finds
    <3>6. CASE h < r
      <4>1. h \in 1..(r - 1)
        BY <3>6, <3>3, <1>4
      <4>2. PICK z \in 1..(k - 1) : v[h] = u[z]
        BY <4>1, <1>3 DEF HasBefore
      <4>3. z \in 1..Len(u) /\ z < k /\ v[x] \in next[u[z]]
        BY <4>2, <3>5, <1>1
      <4>4. HasBefore(u, l, v[x])
        BY <4>3, <1>2, FoundBefore
      <4> QED BY <4>4
    <3>7. CASE h >= r
      <4>1. h = r /\ Before(v[x], v[t], latest)
        BY <3>3, <3>4, <3>7, <1>4
      <4>2. v[x] \in next[u[k]]
        BY <4>1, <3>5, <1>3
      <4>3. v[x] # u[l] /\ ~Before(u[l], v[x], latest)
        <5>1. v[x] # v[t]
          BY <2>1 DEF Walked
        <5>2. v[x] \in Nat /\ v[t] \in Nat
          <6>1. v[x] \in Ids /\ v[t] \in Ids
            BY <1>1, <2>1
          <6>2. Ids \subseteq Nat
            BY JournalAssumption DEF Ids
          <6> QED BY <6>1, <6>2
        <5> QED BY <5>1, <5>2, <4>1, <1>5 DEF Before
      <4>4. HasBefore(u, l, v[x])
        BY <4>2, <4>3, <1>2, FoundBefore
      <4> QED BY <4>4
    <3> QED BY <3>6, <3>7, <3>3, <1>4
  <2> QED BY <2>2, <2>3
<1> QED BY <1>5, <1>6 DEF Meets

LEMMA UpstreamWhole ==
  ASSUME MaxEntries <= BranchLimit, NEW i \in Ids
  PROVE  Walked(Upstream(i), Len(Upstream(i)), i, ParentsOf, TRUE)
BY LinkFunctions, WalkWhole

(* On the way from an entry up to the todo it hangs from, every entry      *)
(* hangs from that todo, so its branch has them all.                       *)
LEMMA BranchHolds ==
  ASSUME MaxEntries <= BranchLimit, NEW a \in Ids, NEW e \in Ids, BranchRoot(e) = a
  PROVE  e \in BranchIds(a)
<1> DEFINE u == Upstream(e)
           B == BranchIds(a)
<1>1. u \in Seq(Ids) /\ Len(u) \in Nat /\ u[1] = e /\ Walked(u, Len(u), e, ParentsOf, TRUE)
  <2>1. u \in Seq(Ids) /\ Len(u) >= 1 /\ u[1] = e
    BY UpstreamSeq
  <2>2. Walked(u, Len(u), e, ParentsOf, TRUE)
    BY UpstreamWhole
  <2>3. Len(u) \in Nat
    BY <2>1
  <2> HIDE DEF u
  <2> QED BY <2>1, <2>2, <2>3, Zenon
<1>2. PICK pos \in 1..Len(u) : FirstTodo(u, pos) /\ u[pos] = a
  <2>1. BranchRoot(e) # NoId
    BY DEF Ids, NoId
  <2> QED BY <2>1, TodoOfRoot
<1> HIDE DEF u
<1>3. a \in B /\ \A x \in B, y \in Ids : y \in BranchOf(a)[x] => y \in B
  <2> DEFINE b == BranchOf(a)
             w == Walk(a, b, FALSE)
  <2>1. b \in [Ids -> SUBSET Ids] /\ FALSE \in BOOLEAN /\ B = ToSet(w)
    BY LinkFunctions
  <2> HIDE DEF b
  <2>2. Walked(w, Len(w), a, b, FALSE)
    BY <2>1, WalkWhole
  <2> HIDE DEF w, B
  <2>3. w \in Seq(Ids) /\ Len(w) >= 1 /\ w[1] = a
    BY <2>2 DEF Walked
  <2>4. a \in ToSet(w)
    BY <2>3 DEF ToSet
  <2>5. ASSUME NEW x \in ToSet(w) PROVE b[x] \subseteq ToSet(w)
    <3>1. PICK k \in 1..Len(w) : x = w[k]
      BY <2>3, <2>5 DEF ToSet
    <3>2. k <= Len(w)
      BY <2>3
    <3> QED BY <3>1, <3>2, <2>2 DEF Walked
  <2> QED BY <2>1, <2>4, <2>5 DEF b
<1> HIDE DEF B
<1> DEFINE Onward(S) == \A k \in S, l \in 1..pos : Finds(u, ParentsOf, k, l) => l \in S
           Reaches(p) == \A S \in SUBSET (1..pos) : p \in S /\ Onward(S) => pos \in S
           T == {p \in 1..pos : Reaches(p) /\ u[p] \in B}
<1>4. pos \in T
  BY <1>1, <1>2, <1>3
<1>5. ASSUME NEW p \in T, p # 1
      PROVE  \E k \in T : k < p
  <2>1. p \in 1..pos /\ p \in 2..Len(u) /\ Reaches(p) /\ u[p] \in B /\ pos \in Nat /\ p \in Nat
    BY <1>1, <1>5
  <2>2. PICK k \in 1..Len(u) : Finds(u, ParentsOf, k, p)
    BY <2>1, <1>1 DEF Walked
  <2>3. k < p /\ k \in 1..pos /\ k \in Nat /\ k < pos /\ u[p] \in ParentsOf[u[k]]
    BY <2>1, <2>2 DEF Finds
  <2>4. Reaches(k)
    <3>1. SUFFICES ASSUME NEW S \in SUBSET (1..pos), k \in S, Onward(S) PROVE pos \in S
      OBVIOUS
    <3>2. p \in S
      BY <3>1, <2>1, <2>2
    <3> QED BY <3>1, <3>2, <2>1
  <2> DEFINE c == u[k]
             v == Upstream(c)
             S == {l \in 1..pos : k <= l /\ Meets(u, v, l)}
  <2>5. c \in Ids
    BY <1>1
  <2>6. /\ v \in Seq(Ids) /\ Len(v) >= 1 /\ v[1] = c
        /\ Walked(v, Len(v), c, ParentsOf, TRUE)
    <3> HIDE DEF c
    <3> QED BY <2>5, UpstreamSeq, UpstreamWhole
  <2> HIDE DEF v
  <2>7. Meets(u, v, k)
    <3>1. 1 \in 1..Len(v) /\ v[1] = u[k]
      BY <2>6
    <3> QED BY <3>1 DEF Meets
  <2>8. Onward(S)
    <3>1. SUFFICES ASSUME NEW j \in S, NEW l \in 1..pos, Finds(u, ParentsOf, j, l)
                   PROVE  l \in S
      OBVIOUS
    <3>2. /\ j \in 1..Len(u) /\ l \in 1..Len(u) /\ k <= j /\ Meets(u, v, j) /\ j < l
          /\ j \in Nat /\ l \in Nat
      BY <3>1, <2>1, <1>1, <1>2 DEF Finds
    <3>3. Meets(u, v, l)
      BY <3>1, <3>2, <2>5, <2>6, <1>1, MeetsOn
    <3> QED BY <3>2, <3>3, <2>3
  <2>9. Meets(u, v, pos)
    <3>1. S \in SUBSET (1..pos) /\ k \in S
      BY <2>3, <2>7
    <3> HIDE DEF S
    <3>2. pos \in S
      BY <3>1, <2>8, <2>4
    <3> QED BY <3>2 DEF S
  <2>10. BranchRoot(c) = a
    <3>1. PICK r \in 1..Len(v) : /\ v[r] = u[pos]
                                 /\ \A x \in 1..(r - 1) : HasBefore(u, pos, v[x])
      BY <2>9 DEF Meets
    <3>2. FirstTodo(v, r)
      BY <3>1, <1>2 DEF FirstTodo, HasBefore
    <3> HIDE DEF c
    <3>3. BranchRoot(c) = v[r]
      BY <3>2, <2>5, RootOfTodo DEF v
    <3> QED BY <3>1, <3>3, <1>2
  <2>11. ~IsTodo(c)
    <3>1. k \in 1..(pos - 1)
      BY <2>3, <2>1
    <3> QED BY <3>1, <1>2 DEF FirstTodo
  <2>12. c \in BranchOf(a)[u[p]]
    <3>1. u[p] \in Ids
      BY <2>1, <1>1
    <3>2. c \in Children(u[p])
      BY <2>3, <2>5, <3>1 DEF ParentsOf, Parents, Children
    <3> QED BY <3>1, <3>2, <2>10, <2>11 DEF BranchOf
  <2>13. c \in B
    BY <2>12, <2>5, <2>1, <1>3
  <2> QED BY <2>3, <2>4, <2>13
<1>6. T \in SUBSET Nat /\ T # {}
  BY <1>4
<1> HIDE DEF T
<1>7. Min(T) \in T /\ \A x \in T : Min(T) <= x
  BY <1>6, Least
<1>8. Min(T) = 1
  <2>1. SUFFICES ASSUME Min(T) # 1 PROVE FALSE
    OBVIOUS
  <2>2. PICK k \in T : k < Min(T)
    BY <2>1, <1>5, <1>7
  <2>3. k \in Nat /\ Min(T) \in Nat /\ Min(T) <= k
    BY <2>2, <1>6, <1>7
  <2> QED BY <2>2, <2>3
<1> QED BY <1>1, <1>7, <1>8 DEF T, B

-----------------------------------------------------------------------------
(* The close of a todo.                                                    *)

(* What a close writes and where. *)
LEMMA CloseWrites ==
  ASSUME JournalTypeOK, NEW i \in Ids, NEW items \in SUBSET WorkItems,
         NEW abandon \in BOOLEAN, Close(i, items, abandon), NEW e \in Ids, NEW f \in Flags
  PROVE  \/ flags'[e][f] = flags[e][f]
            /\ ~(e = i /\ f \in items)
            /\ ("todo" \in items /\ e \in BranchIds(i) \ {i} /\ f \in OpenItems(e)
                  => Spared(e, f, abandon))
         \/ /\ flags'[e][f] = IF abandon /\ items \cap {"todo", "unverified"} # {}
                              THEN "dropped" ELSE "done"
            /\ \/ e = i /\ f \in items
               \/ "todo" \in items /\ e \in BranchIds(i) \ {i} /\ f \in OpenItems(e)
<1> DEFINE branch == IF "todo" \in items THEN BranchIds(i) ELSE {}
           resolution == IF abandon /\ items \cap {"todo", "unverified"} # {}
                         THEN "dropped" ELSE "done"
           Ends(x, g) == \/ x = i /\ g \in items
                         \/ /\ x \in branch \ {i} /\ g \in OpenItems(x)
                            /\ ~Spared(x, g, abandon)
<1>1. flags' = [x \in Ids |-> [g \in Flags |->
                  IF Ends(x, g) THEN resolution ELSE flags[x][g]]]
  BY DEF Close
<1>2. flags'[e][f] = IF Ends(e, f) THEN resolution ELSE flags[e][f]
  <2> HIDE DEF Ends, resolution
  <2> QED BY <1>1
<1>3. CASE Ends(e, f)
  <2>1. flags'[e][f] = resolution
    BY <1>2, <1>3
  <2>2. (e = i /\ f \in items) \/ ("todo" \in items /\ e \in BranchIds(i) \ {i} /\ f \in OpenItems(e))
    BY <1>3
  <2> QED BY <2>1, <2>2
<1>4. CASE ~Ends(e, f)
  <2>1. flags'[e][f] = flags[e][f]
    BY <1>2, <1>4
  <2>2. /\ ~(e = i /\ f \in items)
        /\ "todo" \in items /\ e \in BranchIds(i) \ {i} /\ f \in OpenItems(e)
              => Spared(e, f, abandon)
    BY <1>4
  <2> QED BY <2>1, <2>2
<1> QED BY <1>3, <1>4

(* An open todo is closed by its own close and no other step.              *)
LEMMA TodoStep ==
  ASSUME JournalTypeOK, [Next]_vars, NEW a \in Ids, Open(a, "todo"),
         flags'[a]["todo"] \in Closed
  PROVE  \E items \in SUBSET WorkItems, abandon \in BOOLEAN :
            "todo" \in items /\ Close(a, items, abandon)
<1>. USE DEF Open, Closed
<1>0. "todo" \in Flags BY DEF Flags
<1>1. ASSUME NEW b \in Bodies, NEW proved \in WithProof(b),
             \/ AddAgain(b, proved)
             \/ \E refs \in References : AddNew(b, proved, refs)
      PROVE  FALSE
  <2>1. PICK j \in Ids : flags' = WithFlags(j, FlagsOf[b])
    BY <1>1 DEF AddAgain, AddNew, Twins, Entries
  <2>2. FlagsOf[b] \in SUBSET Flags BY JournalAssumption
  <2>3. flags'[a]["todo"] = "open"
    <3>1. CASE j = a BY <3>1, <2>1, <2>2, <1>0, WithFlagsType
    <3>2. CASE j # a BY <3>2, <2>1, <2>2, WithFlagsType
    <3>3. QED BY <3>1, <3>2
  <2>4. QED BY <2>3
<1>2. ASSUME NEW j \in Ids, NEW k \in Ids, NEW kind \in KindsUsed, Link(j, k, kind)
      PROVE  FALSE
  BY <1>2 DEF Link
<1>3. ASSUME NEW l \in links, Unlink(l) PROVE FALSE BY <1>3 DEF Unlink
<1>4. ASSUME NEW j \in Ids, NEW f \in Flags, Mark(j, {f}) PROVE FALSE
  <2>1. flags' = WithFlags(j, {f}) BY <1>4 DEF Mark
  <2>2. CASE j = a BY <2>2, <2>1, <1>0, WithFlagsType
  <2>3. CASE j # a BY <2>3, <2>1, WithFlagsType
  <2>4. QED BY <2>2, <2>3
<1>5. ASSUME NEW j \in Ids, NEW f \in Flags, Unmark(j, {f}) PROVE FALSE
  <2>1. flags'[a]["todo"] \in {"none", "open"}
    BY <1>5, <1>0 DEF Unmark, JournalTypeOK
  <2>2. QED BY <2>1
<1>6. ASSUME NEW j \in Ids, NEW items \in SUBSET WorkItems, NEW abandon \in BOOLEAN,
             Close(j, items, abandon)
      PROVE  "todo" \in items /\ j = a
  <2>1. \/ a = j /\ "todo" \in items
        \/ a \in BranchIds(j) \ {j}
    BY <1>6, <1>0, CloseWrites
  <2>2. a \in BranchIds(j) \ {j} => ~IsTodo(a)
    BY BranchHangs
  <2>3. IsTodo(a) BY DEF IsTodo
  <2>4. QED BY <2>1, <2>2, <2>3
<1>7. ASSUME NEW j \in Ids, NEW F \in SUBSET WorkItems, Reopen(j, F) PROVE FALSE
  BY <1>7, <1>0 DEF Reopen, JournalTypeOK
<1>8. ASSUME NEW gone \in SUBSET Ids, DeleteRows(gone) PROVE FALSE
  BY <1>8, <1>0 DEF DeleteRows, NoFlags
<1>9. CASE SetPolicy BY <1>9 DEF SetPolicy
<1>10. CASE TimePasses BY <1>10 DEF TimePasses
<1>11. CASE UNCHANGED vars BY <1>11 DEF vars
<1>12. ASSUME NEW j \in Ids, Delete(j) PROVE FALSE BY <1>12, <1>8 DEF Delete
<1>13. CASE Gc BY <1>13, <1>8 DEF Gc, Entries
<1>14. QED
  BY <1>1, <1>2, <1>3, <1>4, <1>5, <1>6, <1>7, <1>9, <1>10, <1>11, <1>12, <1>13 DEF Next

(* A todo that closes as done has, among the entries whose nearest todo it *)
(* is, one that is flagged verified and is live evidence under the policy  *)
(* of that moment (close_with, branch_ids, branch_root).                   *)
THEOREM TodosNeedEvidence == Spec => TodoNeedsEvidence
<1>1. ASSUME JournalTypeOK, [Next]_vars, NEW a \in Ids, Open(a, "todo"),
             flags'[a]["todo"] = "done"
      PROVE  \E e \in Ids \ {a} :
                BranchRoot(e) = a /\ Open(e, "verified") /\ IsEvidence(e)
  <2>1. PICK items \in SUBSET WorkItems, abandon \in BOOLEAN :
               "todo" \in items /\ Close(a, items, abandon)
    BY <1>1, TodoStep DEF Closed
  <2>2. ~abandon
    <3>1. "todo" \in Flags BY DEF Flags
    <3>2. flags'[a]["todo"] = IF abandon /\ items \cap {"todo", "unverified"} # {}
                              THEN "dropped" ELSE "done"
      BY <1>1, <2>1, <3>1, CloseWrites
    <3>3. QED BY <1>1, <2>1, <3>2
  <2>3. \E e \in BranchIds(a) \ {a} : Open(e, "verified") /\ IsEvidence(e)
    BY <2>1, <2>2 DEF Close, Checked
  <2>4. QED BY <2>3, BranchHangs
<1>2. ASSUME JournalTypeOK, [Next]_vars
      PROVE  [\A a \in Ids :
                Open(a, "todo") /\ flags'[a]["todo"] = "done" =>
                   \E e \in Ids \ {a} :
                      BranchRoot(e) = a /\ Open(e, "verified") /\ IsEvidence(e)]_vars
  BY <1>1, <1>2
<1>3. QED BY <1>2, JournalTypes, PTL DEF Spec, TodoNeedsEvidence

(* What hangs from another todo, or from none, keeps its flags when a todo *)
(* closes, however long the branch.                                        *)
LEMMA OthersKeepFlags ==
  ASSUME JournalTypeOK, [Next]_vars, NEW a \in Ids, NEW e \in Ids, Open(a, "todo"),
         flags'[a]["todo"] \in Closed, BranchRoot(e) # a
  PROVE  flags'[e] = flags[e]
<1>1. PICK items \in SUBSET WorkItems, abandon \in BOOLEAN :
             "todo" \in items /\ Close(a, items, abandon)
  BY TodoStep
<1>2. e # a
  <2>1. IsTodo(a) BY DEF Open, IsTodo
  <2>2. QED BY <2>1, TodoIsRoot
<1>3. e \notin BranchIds(a)
  BY <1>2, BranchHangs
<1>4. \A f \in Flags : flags'[e][f] = flags[e][f]
  BY <1>1, <1>2, <1>3, CloseWrites
<1>5. flags'[e] \in [Flags -> FlagStates] /\ flags[e] \in [Flags -> FlagStates]
  BY <1>1, CloseStep DEF JournalTypeOK
<1>6. QED BY <1>4, <1>5

(* No work item of an entry that hangs from a todo stays open when that    *)
(* todo closes, but a hypothesis without a proof.                          *)
LEMMA BranchClosesWhole ==
  ASSUME MaxEntries <= BranchLimit,
         JournalTypeOK, [Next]_vars, NEW a \in Ids, NEW e \in Ids, Open(a, "todo"),
         flags'[a]["todo"] \in Closed, BranchRoot(e) = a, e # a, NEW f \in OpenItems(e)
  PROVE  \/ flags'[e][f] = flags'[a]["todo"]
         \/ f = "unverified" /\ flags'[a]["todo"] = "done" /\ ~HasProof(e)
<1>1. PICK items \in SUBSET WorkItems, abandon \in BOOLEAN :
             "todo" \in items /\ Close(a, items, abandon)
  BY TodoStep
<1>2. f \in Flags /\ "todo" \in Flags
  BY DEF OpenItems, WorkItems, Flags
<1>3. e \in BranchIds(a) \ {a}
  BY BranchHolds
<1> DEFINE resolution == IF abandon /\ items \cap {"todo", "unverified"} # {}
                         THEN "dropped" ELSE "done"
<1>4. flags'[a]["todo"] = resolution
  BY <1>1, <1>2, CloseWrites
<1>5. flags'[e][f] = resolution \/ Spared(e, f, abandon)
  BY <1>1, <1>2, <1>3, CloseWrites
<1>6. Spared(e, f, abandon) => f = "unverified" /\ resolution = "done" /\ ~HasProof(e)
  BY DEF Spared
<1>7. QED BY <1>4, <1>5, <1>6

WithinLimit == MaxEntries <= BranchLimit

(* In a journal of at most BRANCH_LIMIT entries, when a todo closes its    *)
(* branch closes with it and nothing else does: what the walk upstream     *)
(* attributes to it is what the walk downstream reaches (branch_root,      *)
(* branch_ids, close_with).                                                *)
THEOREM BranchesCloseAlone == WithinLimit /\ Spec => BranchClosesAlone
<1>1. ASSUME WithinLimit, JournalTypeOK, [Next]_vars
      PROVE  [\A a, e \in Ids :
                Open(a, "todo") /\ flags'[a]["todo"] \in Closed =>
                   /\ BranchRoot(e) # a => flags'[e] = flags[e]
                   /\ BranchRoot(e) = a /\ e # a =>
                         \A f \in OpenItems(e) :
                            \/ flags'[e][f] = flags'[a]["todo"]
                            \/ f = "unverified" /\ flags'[a]["todo"] = "done" /\ ~HasProof(e)]_vars
  BY <1>1, OthersKeepFlags, BranchClosesWhole DEF WithinLimit
<1>2. WithinLimit => WithinLimit'
  BY DEF WithinLimit
<1>3. QED BY <1>1, <1>2, JournalTypes, PTL DEF Spec, BranchClosesAlone

=============================================================================
